---- MODULE Spec2Model ----
(***************************************************************************)
(* AD5933 impedance-converter control protocol.                            *)
(*                                                                         *)
(* The repository holds two controllers for the same chip:                 *)
(*   "gen"  ad5933.py (and its copy in main.py): the class behind the GUI, *)
(*          whose sweep is the generator AD5933.sweep_generator;           *)
(*   "drv"  ad5933-driver.py: the MicroPython driver with the retrying     *)
(*          register helpers, reset(), configure_frequency(),              *)
(*          start_frequency_sweep() and the sweep loop test_sweep().       *)
(* The model runs either one (variant), one register operation per step.   *)
(***************************************************************************)
EXTENDS Integers, Sequences, FiniteSets, TLC

VARIABLES
    variant,    \* which controller class was constructed: "gen" | "drv"
    op,         \* top-level call in progress or last finished
    pc,         \* position inside that call
    cfg,        \* arguments of the sweep
    cfgStep,    \* index of the next configuration write
    i,          \* loop index of the per-point loop
    polls,      \* status reads made for the current point
    ready,      \* a status read of the current point showed bit 1
    rawReal,    \* result of the real-register read of the current point
    cur,        \* the sample handed to the consumer at this yield
    samples,    \* what the consumer has collected: <<[idx, freq]>>
    busLog,     \* register operations of the call up to and including start-sweep
    ptLog,      \* register operations of the current loop iteration
    rop,        \* the most recent register operation and its outcome
    cfgFail,    \* index of the first configuration write that failed, 0 if none
    ideal,      \* so far in this call no transport call faulted and every
                \* status read showed data ready
    ret,        \* what the last finished controller method returned
    ptFail,     \* a register operation of the per-point loop has failed
    incrWrites, \* increment-frequency writes made by this sweep
    temp,       \* the temperature measure_temperature returned, in 1/100 degC
    hnd,        \* where start_sweep of the GUI stands around its generator:
                \* "none" | "before" | "sweep" | "after"
    spent,      \* the generator was pulled again after it had ended
    status,     \* the status value the latest poll handed to its loop
    devIncr,    \* increment-frequency writes of this sweep the transport
                \* delivered to the chip
    trigFail,   \* the measure-temperature write of this call returned False
    arg,        \* arguments of the controller computation under study
    res         \* the codes and bytes computed from arg

\* the variables of CodecSpec, which runs the controller's arithmetic alone
codecVars == <<arg, res>>

vars == <<variant, op, pc, cfg, cfgStep, i, polls, ready, rawReal, cur,
          samples, busLog, ptLog, rop, cfgFail, ideal, ret, ptFail,
          incrWrites, temp, hnd, spent, status, devIncr, trigFail, arg, res>>

-----------------------------------------------------------------------------
(* Bounds of the model *)

\* largest numIncrements explored
MaxIncr == 2
\* fault patterns: k < MaxFaults = the first k transport calls of a register
\* operation fault and the following ones succeed; k = MaxFaults = every
\* transport call of the operation faults
MaxFaults == 4
\* temperature words explored by CodecSpec: high byte 0..MaxTempHigh, every
\* low byte (0x0000..0x3FFF, the 14-bit field)
MaxTempHigh == 63
\* increment counts explored by CodecSpec: 0..MaxCodecIncr
MaxCodecIncr == 512
\* settling cycle counts explored by CodecSpec: 0..MaxSettleCycles (the 9-bit field)
MaxSettleCycles == 511

-----------------------------------------------------------------------------
(* Register map and control codes *)

REG_CONTROL == 128
REG_START_FREQ == 130
REG_FREQ_INCR == 133
REG_NUM_INCR == 136
REG_SETTLE_CYCLES == 138
REG_STATUS == 143
REG_TEMP_DATA == 146
REG_REAL == 148
REG_IMAG == 150

CTRL_INIT_START == 16
CTRL_START_SWEEP == 32
CTRL_INCR_FREQ == 48
CTRL_REPEAT_FREQ == 64
CTRL_MEAS_TEMP == 144
CTRL_POWER_DOWN == 160
CTRL_POWER_UP == 0
CTRL_STANDBY == 176

\* a poll loop that runs once more
MutPollBudget == 20 + 1

\* range(20) of the two poll loops
PollBudget == 20
\* a temperature poll loop that runs once more
MutTempPollBudget == 20 + 1

\* range(20) of measure_temperature
TempPollBudget == 20
\* retries = 3 of the driver's register helpers
Retries == 3
\* clock_freq = 4e6
ClockFreq == 4000000

-----------------------------------------------------------------------------
(* Bit arithmetic on non-negative integers *)

Pow2(n) == 2 ^ n
ShiftRight(x, n) == x \div Pow2(n)
LowByte(x) == x % 256
Bit(x, n) == (x \div Pow2(n)) % 2

\* the three bytes least significant first
MutBytes3(code) ==
    <<LowByte(code), LowByte(ShiftRight(code, 8)), LowByte(ShiftRight(code, 16))>>

\* [(code >> 16) & 0xFF, (code >> 8) & 0xFF, code & 0xFF]
Bytes3(code) ==
    <<LowByte(ShiftRight(code, 16)), LowByte(ShiftRight(code, 8)), LowByte(code)>>

\* [(n >> 8) & 0xFF, n & 0xFF]
Bytes2(n) == <<LowByte(ShiftRight(n, 8)), LowByte(n)>>

\* int((freq_hz * (2**27)) / clock_freq): the product is exact and the
\* quotient is truncated.  2^27 / 4000000 = 2^19 / 15625; the quotient is taken
\* in three exact stages so that no intermediate value exceeds 32 bits.
ClockOdd == ClockFreq \div Pow2(8)

\* a frequency code scaled by 2**26
MutFreqCode(freqHz) ==
    LET q0 == freqHz \div ClockOdd
        r0 == freqHz % ClockOdd
        q1 == (r0 * Pow2(10)) \div ClockOdd
        r1 == (r0 * Pow2(10)) % ClockOdd
        q2 == (r1 * Pow2(8)) \div ClockOdd
    IN  q0 * Pow2(18) + q1 * Pow2(8) + q2

FreqCode(freqHz) ==
    LET q0 == freqHz \div ClockOdd
        r0 == freqHz % ClockOdd
        q1 == (r0 * Pow2(10)) \div ClockOdd
        r1 == (r0 * Pow2(10)) % ClockOdd
        q2 == (r1 * Pow2(9)) \div ClockOdd
    IN  q0 * Pow2(19) + q1 * Pow2(9) + q2

\* the keys of range_bits: the excitation range codes that are defined
DefinedRanges == {1, 2, 3, 4}

\* a table whose third entry repeats the second
MutRangeBits(code) ==
    CASE code = 1 -> <<0, 0>>
      [] code = 2 -> <<0, 1>>
      [] code = 3 -> <<0, 1>>
      [] code = 4 -> <<1, 1>>
      [] OTHER -> <<0, 0>>

\* range_bits.get(excitation_range_code, (0, 0))
RangeBits(code) ==
    CASE code = 1 -> <<0, 0>>
      [] code = 2 -> <<0, 1>>
      [] code = 3 -> <<1, 0>>
      [] code = 4 -> <<1, 1>>
      [] OTHER -> <<0, 0>>

\* ctrl_high = (0xA << 4) | ((rb[0] & 1) << 2) | ((rb[1] & 1) << 1) | gain
CtrlHigh(rangeCode, gainX1) ==
    LET rb == RangeBits(rangeCode)
    IN  160 + 4 * (rb[1] % 2) + 2 * (rb[2] % 2) + (IF gainX1 THEN 1 ELSE 0)

-----------------------------------------------------------------------------
(* Values crossing the register layer *)

\* Python's None and a bytes object, as the read helper returns them
PyNone == [none |-> TRUE, bytes |-> <<>>]
PyBytes(b) == [none |-> FALSE, bytes |-> b]

\* the transport's behaviour during one register operation
FaultPatterns == 0..MaxFaults
Faulty(k, attempt) == IF k = MaxFaults THEN TRUE ELSE attempt <= k

\* status bytes and data words the chip may answer with
StatusBytes == {0, 1, 2, 3}
DataWords == {<<0, 3>>, <<255, 252>>}

-----------------------------------------------------------------------------
(* Register Access Layer *)

\* ad5933.py _write_reg: one writeto inside try/except, True or False
GenWriteReg(k) ==
    IF Faulty(k, 1)
    THEN [val |-> "False", calls |-> 1]
    ELSE [val |-> "True", calls |-> 1]

\* ad5933.py _read_reg: one writeto_then_readfrom inside try/except
GenReadReg(k, data) ==
    IF Faulty(k, 1)
    THEN [val |-> PyNone, calls |-> 1]
    ELSE [val |-> PyBytes(data), calls |-> 1]

\* ad5933-driver.py _write_reg: while retries > 0, after `calls` transport calls
RECURSIVE DrvWriteLoop(_, _, _)
DrvWriteLoop(retries, calls, k) ==
    IF retries > 0
    THEN IF ~Faulty(k, calls + 1)
         THEN [val |-> "True", calls |-> calls + 1, left |-> retries]
         ELSE IF retries - 1 = 0
              THEN [val |-> "False", calls |-> calls + 1, left |-> retries - 1]
              ELSE DrvWriteLoop(retries - 1, calls + 1, k)
    ELSE [val |-> "None", calls |-> calls, left |-> retries]

\* a helper that starts with one retry more
MutDrvWriteReg(k) == DrvWriteLoop(Retries + 1, 0, k)

\* retries = 3, then the loop
DrvWriteReg(k) == DrvWriteLoop(Retries, 0, k)

\* ad5933-driver.py _read_reg
RECURSIVE DrvReadLoop(_, _, _, _)
DrvReadLoop(retries, calls, k, data) ==
    IF retries > 0
    THEN IF ~Faulty(k, calls + 1)
         THEN [val |-> PyBytes(data), calls |-> calls + 1, left |-> retries]
         ELSE IF retries - 1 = 0
              THEN [val |-> PyNone, calls |-> calls + 1, left |-> retries - 1]
              ELSE DrvReadLoop(retries - 1, calls + 1, k, data)
    ELSE [val |-> PyNone, calls |-> calls, left |-> retries]

\* a read helper that answers exhausted retries with an empty bytes object
MutDrvReadRegEmpty(k, data) ==
    LET r == DrvReadLoop(Retries, 0, k, data)
    IN  IF r.val.none
        THEN [val |-> PyBytes(<<>>), calls |-> r.calls, left |-> r.left]
        ELSE r

DrvReadReg(k, data) == DrvReadLoop(Retries, 0, k, data)

WriteReg(v, k) == IF v = "gen" THEN GenWriteReg(k) ELSE DrvWriteReg(k)
ReadReg(v, k, data) == IF v = "gen" THEN GenReadReg(k, data) ELSE DrvReadReg(k, data)

\* truthiness of what the write helper returned
Truthy(val) == val = "True"

\* entries of busLog and ptLog
WEntry(reg, data) == [kind |-> "w", reg |-> reg, data |-> data]
REntry(reg, n) == [kind |-> "r", reg |-> reg, data |-> <<n>>]

\* the record kept of the latest register operation
NoOp == [kind |-> "none", reg |-> 0, faults |-> 0, calls |-> 0, ok |-> FALSE,
         wval |-> "", val |-> PyNone]
WOp(reg, k, w) == [kind |-> "w", reg |-> reg, faults |-> k, calls |-> w.calls,
                   ok |-> Truthy(w.val), wval |-> w.val, val |-> PyNone]
ROp(reg, k, r) == [kind |-> "r", reg |-> reg, faults |-> k, calls |-> r.calls,
                   ok |-> ~r.val.none, wval |-> "", val |-> r.val]

\* the data handed to _write_reg: an int (v) or a list of ints (items)
PyInt(b) == [int |-> TRUE, v |-> b, items |-> <<>>]
PyList(s) == [int |-> FALSE, v |-> 0, items |-> s]

\* bytearray(...) and bytes(...) take items of range(0, 256) only
AllBytes(s) == \A j \in 1..Len(s) : s[j] >= 0 /\ s[j] <= 255

\* an int sent with a leading zero byte
MutGenPayload(data) == IF data.int THEN <<0, data.v>> ELSE data.items

\* ad5933.py: if isinstance(data, int): data = [data]
GenPayload(data) == IF data.int THEN <<data.v>> ELSE data.items

\* ad5933.py: message = bytearray([reg] + data)
GenMessage(reg, data) == <<reg>> \o GenPayload(data)

\* ad5933-driver.py: bytes([data]) of an int, bytes(data) of a list
DrvPayload(data) == IF data.int THEN <<data.v>> ELSE data.items

\* ad5933.py _write_reg with its arguments: val is what it returns, sent the
\* messages handed to writeto, out the lines printed.  A ValueError of
\* bytearray is caught by the helper's own except, before any transport call.
GenWriteTraced(debug, reg, data, k) ==
    LET m == GenMessage(reg, data)
        w == GenWriteReg(k)
    IN  IF ~AllBytes(m)
        THEN [val |-> "False", sent |-> <<>>, out |-> <<"I2C Write Error">>]
        ELSE [val |-> w.val,
              sent |-> [j \in 1..w.calls |-> m],
              out |-> IF ~Truthy(w.val) THEN <<"I2C Write Error">>
                      ELSE IF debug THEN <<"Write to reg">> ELSE <<>>]

\* ad5933-driver.py _write_reg with its arguments: sent holds the (reg, data)
\* of each writeto_mem call, left the retries counter at the return.  A
\* ValueError of bytes is raised to the caller.
DrvWriteTraced(debug, reg, data, k) ==
    LET p == DrvPayload(data)
        w == DrvWriteReg(k)
    IN  IF ~AllBytes(p)
        THEN [val |-> "raises", sent |-> <<>>, left |-> Retries, out |-> <<>>]
        ELSE [val |-> w.val,
              sent |-> [j \in 1..w.calls |-> [reg |-> reg, data |-> p]],
              left |-> w.left,
              out |-> (IF debug THEN <<"Writing">> ELSE <<>>)
                      \o (IF debug /\ ~Truthy(w.val)
                          THEN <<"Write failed after 3 retries">> ELSE <<>>)]

\* ad5933.py _read_reg with its arguments: sent holds the register byte
\* written and the length read of each writeto_then_readfrom call
GenReadTraced(debug, reg, nbytes, k, data) ==
    LET r == GenReadReg(k, data)
    IN  [val |-> r.val,
         sent |-> [j \in 1..r.calls |-> [reg |-> <<reg>>, n |-> nbytes]],
         out |-> IF r.val.none THEN <<"I2C Read Error">>
                 ELSE IF debug THEN <<"Read from reg">> ELSE <<>>]

\* a debug print that costs one more transport call
MutDrvReadTraced(debug, reg, nbytes, k, data) ==
    LET r == DrvReadReg(k, data)
    IN  [val |-> r.val,
         sent |-> [j \in 1..(r.calls + IF debug THEN 1 ELSE 0)
                      |-> [reg |-> reg, n |-> nbytes]],
         left |-> r.left,
         out |-> IF ~debug THEN <<>>
                 ELSE IF r.val.none THEN <<"Read failed after 3 retries">>
                 ELSE <<"Read">>]

\* ad5933-driver.py _read_reg with its arguments
DrvReadTraced(debug, reg, nbytes, k, data) ==
    LET r == DrvReadReg(k, data)
    IN  [val |-> r.val,
         sent |-> [j \in 1..r.calls |-> [reg |-> reg, n |-> nbytes]],
         left |-> r.left,
         out |-> IF ~debug THEN <<>>
                 ELSE IF r.val.none THEN <<"Read failed after 3 retries">>
                 ELSE <<"Read">>]

\* configure_settling_time: (multiply_by & 0x3) << 9 | (cycles >> 8) & 0x1,
\* the shift binding tighter than & and | ; the two operands of | share no bit
SettleMsb(cycles, multiply_by) ==
    (multiply_by % 4) * Pow2(9) + (ShiftRight(cycles, 8) % 2)

\* cycles & 0xFF
SettleLsb(cycles) == cycles % 256

\* return self._write_reg(self.REG_SETTLE_CYCLES, [msb, lsb])
ConfigureSettlingTime(debug, cycles, multiply_by, k) ==
    GenWriteTraced(debug, REG_SETTLE_CYCLES,
                   PyList(<<SettleMsb(cycles, multiply_by), SettleLsb(cycles)>>), k)

-----------------------------------------------------------------------------
(* Sweep arguments and samples *)

\* The arguments of a sweep.  numIsInt = FALSE stands for a num_increments
\* that is not an int (2.0): `num_increments >> 8` raises TypeError inside
\* configure_sweep's try block.  test_sweep's three literals (start_freq,
\* freq_incr, num_points) are drawn from the same set so that its loop is
\* explored at small sizes.  The other excitation ranges and the x5 gain are
\* explored on the shortest sweep, and so is a range code that range_bits
\* does not hold (5): sweep_generator and main.py's start_sweep pass the code
\* on as they got it.
Configs ==
    [start : {30000}, incr : {100}, N : 0..MaxIncr, range : {1},
     gainX1 : {TRUE}, numIsInt : {TRUE}]
    \cup {[start |-> 1000, incr |-> 0, N |-> 1, range |-> 1,
           gainX1 |-> TRUE, numIsInt |-> TRUE],
          [start |-> 30000, incr |-> 100, N |-> 1, range |-> 1,
           gainX1 |-> TRUE, numIsInt |-> FALSE]}
    \cup {[start |-> 30000, incr |-> 100, N |-> 0, range |-> rg[1],
           gainX1 |-> rg[2], numIsInt |-> TRUE] :
              rg \in {<<2, FALSE>>, <<3, TRUE>>, <<4, FALSE>>, <<5, TRUE>>}}

\* test_sweep takes no argument: integer literals, and neither an excitation
\* range nor a gain
DrvTakes(c) == c.numIsInt /\ c.range = 1 /\ c.gainX1

NoCfg == [start |-> 0, incr |-> 0, N |-> 0, range |-> 1, gainX1 |-> TRUE,
          numIsInt |-> TRUE]

\* int.from_bytes(raw, 'big', signed=True)
FromBytesSigned(b) ==
    LET u == 256 * b[1] + b[2]
    IN  IF u >= 32768 THEN u - 65536 ELSE u

\* the correction made above 0x8000 only
MutFromBytesCorrected(b) ==
    LET u == 256 * b[1] + b[2]
    IN  IF u > 32768 THEN u - 65536 ELSE u

\* real = int.from_bytes(data, 'big'); if real & 0x8000: real -= 65536
FromBytesCorrected(b) ==
    LET u == 256 * b[1] + b[2]
    IN  IF Bit(u, 15) = 1 THEN u - 65536 ELSE u

\* round(n / d, 0) as Python rounds a float that is exactly n / d: to the
\* nearest integer, a tie to the even one
RoundHalfEven(n, d) ==
    LET q == n \div d
        r == n % d
    IN  IF 2 * r < d THEN q
        ELSE IF 2 * r > d THEN q + 1
        ELSE IF q % 2 = 0 THEN q ELSE q + 1

\* a decoding that never looks at the sign bit
MutTempCentiDegrees(b) == RoundHalfEven(FromBytesSigned(b) * 100, 32)

\* raw_val = int.from_bytes(raw, 'big', signed=True)
\* temp_c = (raw_val - 16384) / 32.0 if raw_val & 0x2000 else raw_val / 32.0
\* round(temp_c, 2), kept as the integer number of hundredths
TempCentiDegrees(b) ==
    LET rawVal == FromBytesSigned(b)
        num == IF Bit(rawVal, 13) = 1 THEN rawVal - 16384 ELSE rawVal
    IN  RoundHalfEven(num * 100, 32)

\* test_sweep keeps the magnitude only: its points carry no frequency
NoFreq == 0 - 1
NoSample == [idx |-> 0 - 1, freq |-> NoFreq, re |-> 0, im |-> 0, magSq |-> 0]

\* the integer part of the square root of n, n below 2^31
RECURSIVE SqrtSearch(_, _, _)
SqrtSearch(n, lo, hi) ==
    IF lo = hi
    THEN lo
    ELSE LET mid == (lo + hi + 1) \div 2
         IN  IF mid * mid <= n
             THEN SqrtSearch(n, mid, hi)
             ELSE SqrtSearch(n, lo, mid - 1)

\* math.sqrt(sq) and sq ** 0.5 of an integer sq: the root where it is an
\* integer (exact), its integer part otherwise
Magnitude(sq) ==
    LET r == SqrtSearch(sq, 0, 46340)
    IN  [root |-> r, exact |-> r * r = sq]

\* the components multiplied with each other
MutGenSample(c, idx, rawRe, rawIm) ==
    LET re == FromBytesSigned(rawRe.bytes)
        im == FromBytesSigned(rawIm.bytes)
    IN  [idx |-> idx, freq |-> c.start + idx * c.incr, re |-> re, im |-> im,
         magSq |-> re * im + im * re]

\* (freq, real_val, imag_val, magnitude), the magnitude kept as its square
GenSample(c, idx, rawRe, rawIm) ==
    LET re == FromBytesSigned(rawRe.bytes)
        im == FromBytesSigned(rawIm.bytes)
    IN  [idx |-> idx, freq |-> c.start + idx * c.incr, re |-> re, im |-> im,
         magSq |-> re * re + im * im]

DrvSample(c, idx, rawRe, rawIm) ==
    LET re == FromBytesCorrected(rawRe.bytes)
        im == FromBytesCorrected(rawIm.bytes)
    IN  [idx |-> idx, freq |-> NoFreq, re |-> re, im |-> im,
         magSq |-> re * re + im * im]

\* configure_sweep's seven writes, in program order
GenConfigWrites(c) ==
    << WEntry(REG_CONTROL, <<CTRL_POWER_DOWN>>),
       WEntry(REG_CONTROL, <<CTRL_STANDBY>>),
       WEntry(REG_CONTROL, <<CtrlHigh(c.range, c.gainX1), 0>>),
       WEntry(REG_START_FREQ, Bytes3(FreqCode(c.start))),
       WEntry(REG_FREQ_INCR, Bytes3(FreqCode(c.incr))),
       WEntry(REG_NUM_INCR, Bytes2(c.N)),
       WEntry(REG_SETTLE_CYCLES, <<0, 15>>) >>

\* configure_frequency's four writes, in program order
DrvConfigWrites(c) ==
    << WEntry(REG_START_FREQ, Bytes3(FreqCode(c.start))),
       WEntry(REG_FREQ_INCR, Bytes3(FreqCode(c.incr))),
       WEntry(REG_NUM_INCR, Bytes2(c.N)),
       WEntry(REG_SETTLE_CYCLES, <<0, 255>>) >>

ConfigWrites(v, c) == IF v = "gen" THEN GenConfigWrites(c) ELSE DrvConfigWrites(c)

\* the index of the write whose arguments raise for a non-int num_increments
NumIncrStep == 6

\* a loop that runs one more time
MutLoopCount(v, c) == IF v = "gen" THEN c.N + 2 ELSE c.N + 2

\* for i in range(num_increments + 1)  /  for i in range(num_points)
LoopCount(v, c) == IF v = "gen" THEN c.N + 1 ELSE c.N

\* if i < num_increments  /  if i < num_points - 1
WantsIncrement(v, c, idx) == IF v = "gen" THEN idx < c.N ELSE idx < c.N - 1

\* no temperature has been returned (measure_temperature returned None)
NoTemp == [none |-> TRUE, centi |-> 0]

\* no computation under study
\* the value a poll loop works with: none after a read whose result could
\* not be indexed
NoStatus == [none |-> TRUE, v |-> 0]
StatusOf(b) == [none |-> FALSE, v |-> b]

\* a status kept from an earlier read that showed the ready bits
MutGenStatus(r) == StatusOf(3)

\* ad5933.py: status = self._read_reg(self.REG_STATUS)[0]
GenStatus(r) == IF r.val.none THEN NoStatus ELSE StatusOf(r.val.bytes[1])

\* ad5933-driver.py get_status: if data is None: return 0; return data[0]
DrvGetStatus(r) == IF r.val.none THEN StatusOf(0) ELSE StatusOf(r.val.bytes[1])

NoArg == [fn |-> "none"]
NoRes == [fn |-> "none"]

-----------------------------------------------------------------------------
(* Initial state: a controller has been constructed, nothing was called *)

Init ==
    /\ variant \in {"gen", "drv"}
    /\ op = "none"
    /\ pc = "idle"
    /\ cfg = NoCfg
    /\ cfgStep = 0
    /\ i = 0
    /\ polls = 0
    /\ ready = FALSE
    /\ rawReal = PyNone
    /\ cur = NoSample
    /\ samples = <<>>
    /\ busLog = <<>>
    /\ ptLog = <<>>
    /\ rop = NoOp
    /\ cfgFail = 0
    /\ ideal = TRUE
    /\ ret = "none"
    /\ ptFail = FALSE
    /\ incrWrites = 0
    /\ temp = NoTemp
    /\ hnd = "none"
    /\ spent = FALSE
    /\ status = NoStatus
    /\ devIncr = 0
    /\ trigFail = FALSE
    /\ arg = NoArg
    /\ res = NoRes

\* a new top-level call starts from a clean record of the previous one
Fresh ==
    /\ i' = 0
    /\ polls' = 0
    /\ ready' = FALSE
    /\ rawReal' = PyNone
    /\ cur' = NoSample
    /\ samples' = <<>>
    /\ ptLog' = <<>>
    /\ cfgFail' = 0
    /\ ptFail' = FALSE
    /\ incrWrites' = 0
    /\ temp' = NoTemp
    /\ spent' = FALSE
    /\ status' = NoStatus
    /\ devIncr' = 0
    /\ trigFail' = FALSE

-----------------------------------------------------------------------------
(* Direct calls of the register helpers *)

\* _write_reg(reg, data), as test_sweep calls ad._write_reg(ad.REG_CONTROL, 0x30)
CallWriteReg ==
    /\ pc = "idle"
    /\ hnd = "none"
    /\ UNCHANGED hnd
    /\ \E k \in FaultPatterns :
         LET w == WriteReg(variant, k)
         IN  /\ rop' = WOp(REG_CONTROL, k, w)
             /\ ideal' = (k = 0)
             /\ ret' = w.val
    /\ op' = "write"
    /\ busLog' = <<WEntry(REG_CONTROL, <<CTRL_INCR_FREQ>>)>>
    /\ cfg' = NoCfg
    /\ cfgStep' = 0
    /\ Fresh
    /\ UNCHANGED <<variant, pc>>
    /\ UNCHANGED codecVars

\* _read_reg(reg, nbytes) for nbytes = 0, 1, 2
CallReadReg ==
    /\ pc = "idle"
    /\ hnd = "none"
    /\ UNCHANGED hnd
    /\ \E k \in FaultPatterns, data \in {<<>>, <<0>>, <<2>>} \cup DataWords :
         LET r == ReadReg(variant, k, data)
         IN  /\ rop' = ROp(REG_STATUS, k, r)
             /\ ideal' = (k = 0)
             /\ ret' = IF r.val.none THEN "None" ELSE "bytes"
             /\ busLog' = <<REntry(REG_STATUS, Len(data))>>
    /\ op' = "read"
    /\ cfg' = NoCfg
    /\ cfgStep' = 0
    /\ Fresh
    /\ UNCHANGED <<variant, pc>>
    /\ UNCHANGED codecVars

-----------------------------------------------------------------------------
(* reset() of the driver *)

CallReset ==
    /\ pc = "idle"
    /\ hnd = "none"
    /\ UNCHANGED hnd
    /\ variant = "drv"
    /\ op' = "reset"
    /\ pc' = "rst_pd"
    /\ busLog' = <<>>
    /\ rop' = NoOp
    /\ ideal' = TRUE
    /\ ret' = "none"
    /\ cfg' = NoCfg
    /\ cfgStep' = 0
    /\ Fresh
    /\ UNCHANGED variant
    /\ UNCHANGED codecVars

\* a reset() that ignores the result of the power-down write
MutResetPowerDown ==
    /\ pc = "rst_pd"
    /\ \E k \in FaultPatterns :
         /\ rop' = WOp(REG_CONTROL, k, WriteReg(variant, k))
         /\ ideal' = (ideal /\ k = 0)
    /\ pc' = "rst_sb"
    /\ busLog' = Append(busLog, WEntry(REG_CONTROL, <<CTRL_POWER_DOWN>>))
    /\ UNCHANGED <<variant, op, cfg, cfgStep, i, polls, ready, rawReal, cur,
                   samples, ptLog, cfgFail, ret>>
    /\ UNCHANGED <<ptFail, incrWrites, temp, arg, res>>
    /\ UNCHANGED <<hnd, spent, devIncr, trigFail>>
    /\ status' = NoStatus

\* if not self._write_reg(self.REG_CONTROL, 0xA0): return False
ResetPowerDown ==
    /\ pc = "rst_pd"
    /\ \E k \in FaultPatterns :
         LET w == WriteReg(variant, k)
         IN  /\ rop' = WOp(REG_CONTROL, k, w)
             /\ ideal' = (ideal /\ k = 0)
             /\ IF Truthy(w.val)
                THEN pc' = "rst_sb" /\ ret' = ret
                ELSE pc' = "idle" /\ ret' = "False"
    /\ busLog' = Append(busLog, WEntry(REG_CONTROL, <<CTRL_POWER_DOWN>>))
    /\ UNCHANGED <<variant, op, cfg, cfgStep, i, polls, ready, rawReal, cur,
                   samples, ptLog, cfgFail>>
    /\ UNCHANGED <<ptFail, incrWrites, temp, arg, res>>
    /\ UNCHANGED <<hnd, spent, devIncr, trigFail>>
    /\ status' = NoStatus

\* if not self._write_reg(self.REG_CONTROL, 0xB0): return False
ResetStandby ==
    /\ pc = "rst_sb"
    /\ \E k \in FaultPatterns :
         LET w == WriteReg(variant, k)
         IN  /\ rop' = WOp(REG_CONTROL, k, w)
             /\ ideal' = (ideal /\ k = 0)
             /\ IF Truthy(w.val)
                THEN pc' = "rst_st" /\ ret' = ret
                ELSE pc' = "idle" /\ ret' = "False"
    /\ busLog' = Append(busLog, WEntry(REG_CONTROL, <<CTRL_STANDBY>>))
    /\ UNCHANGED <<variant, op, cfg, cfgStep, i, polls, ready, rawReal, cur,
                   samples, ptLog, cfgFail>>
    /\ UNCHANGED <<ptFail, incrWrites, temp, arg, res>>
    /\ UNCHANGED <<hnd, spent, devIncr, trigFail>>
    /\ status' = NoStatus

\* status = self._read_reg(self.REG_STATUS); return status is not None
ResetStatus ==
    /\ pc = "rst_st"
    /\ \E k \in FaultPatterns, s \in StatusBytes :
         LET r == ReadReg(variant, k, <<s>>)
         IN  /\ rop' = ROp(REG_STATUS, k, r)
             /\ ideal' = (ideal /\ k = 0)
             /\ ret' = IF r.val.none THEN "False" ELSE "True"
    /\ pc' = "idle"
    /\ busLog' = Append(busLog, REntry(REG_STATUS, 1))
    /\ UNCHANGED <<variant, op, cfg, cfgStep, i, polls, ready, rawReal, cur,
                   samples, ptLog, cfgFail>>
    /\ UNCHANGED <<ptFail, incrWrites, temp, arg, res>>
    /\ UNCHANGED <<hnd, spent, devIncr, trigFail>>
    /\ status' = NoStatus

-----------------------------------------------------------------------------
(* measure_temperature() of ad5933.py *)

CallMeasureTemperature ==
    /\ pc = "idle"
    /\ hnd = "none"
    /\ UNCHANGED hnd
    /\ variant = "gen"
    /\ op' = "temp"
    /\ pc' = "tmp_w"
    /\ busLog' = <<>>
    /\ rop' = NoOp
    /\ ideal' = TRUE
    /\ ret' = "none"
    /\ cfg' = NoCfg
    /\ cfgStep' = 0
    /\ Fresh
    /\ UNCHANGED variant
    /\ UNCHANGED codecVars

\* start_sweep of the GUI begins: temp_before = self.ad5933.measure_temperature()
StartSweep ==
    /\ pc = "idle"
    /\ hnd = "none"
    /\ variant = "gen"
    /\ hnd' = "before"
    /\ op' = "temp"
    /\ pc' = "tmp_w"
    /\ busLog' = <<>>
    /\ rop' = NoOp
    /\ ideal' = TRUE
    /\ ret' = "none"
    /\ cfg' = NoCfg
    /\ cfgStep' = 0
    /\ Fresh
    /\ UNCHANGED variant
    /\ UNCHANGED codecVars

\* start_sweep of the GUI ends after temp_after: print("SWEEP_DONE")
SweepDone ==
    /\ pc = "idle"
    /\ hnd = "after"
    /\ hnd' = "none"
    /\ op' = "none"
    /\ busLog' = <<>>
    /\ rop' = NoOp
    /\ ideal' = TRUE
    /\ ret' = "none"
    /\ cfg' = NoCfg
    /\ cfgStep' = 0
    /\ Fresh
    /\ UNCHANGED <<variant, pc>>
    /\ UNCHANGED codecVars

\* self._write_reg(self.REG_CONTROL, 0x90): the result is dropped
TempWrite ==
    /\ pc = "tmp_w"
    /\ \E k \in FaultPatterns :
         LET w == WriteReg(variant, k)
         IN  /\ rop' = WOp(REG_CONTROL, k, w)
             /\ ideal' = (ideal /\ k = 0)
             /\ trigFail' = ~Truthy(w.val)
    /\ pc' = "tmp_poll"
    /\ busLog' = Append(busLog, WEntry(REG_CONTROL, <<CTRL_MEAS_TEMP>>))
    /\ UNCHANGED <<variant, op, cfg, cfgStep, i, polls, ready, rawReal, cur,
                   samples, ptLog, cfgFail, ret>>
    /\ UNCHANGED <<ptFail, incrWrites, temp, arg, res>>
    /\ UNCHANGED <<hnd, spent, devIncr>>
    /\ status' = NoStatus

\* what follows a poll round that returned nothing: time.sleep(0.05) and the
\* next round, or the end of range(20) and return None
AfterTempRound(n) ==
    IF n < TempPollBudget
    THEN [pc |-> "tmp_poll", ret |-> "none"]
    ELSE [pc |-> "idle", ret |-> "None"]

\* status = self._read_reg(self.REG_STATUS)[0]; if status & 0x01: ...
\* (None[0] raises TypeError: except Exception: return None)
TempPoll ==
    /\ pc = "tmp_poll"
    /\ polls < TempPollBudget
    /\ \E k \in FaultPatterns, s \in StatusBytes :
         LET r == ReadReg(variant, k, <<s>>)
         IN  /\ rop' = ROp(REG_STATUS, k, r)
             /\ ideal' = (ideal /\ k = 0)
             /\ status' = GenStatus(r)
             /\ IF r.val.none
                THEN pc' = "idle" /\ ret' = "None" /\ ready' = ready
                ELSE IF Bit(GenStatus(r).v, 0) = 1
                THEN pc' = "tmp_read" /\ ret' = ret /\ ready' = TRUE
                ELSE /\ pc' = AfterTempRound(polls + 1).pc
                     /\ ret' = AfterTempRound(polls + 1).ret
                     /\ ready' = ready
    /\ polls' = polls + 1
    /\ ptLog' = <<REntry(REG_STATUS, 1)>>
    /\ UNCHANGED <<variant, op, cfg, cfgStep, i, rawReal, cur, samples, busLog,
                   cfgFail>>
    /\ UNCHANGED <<ptFail, incrWrites, temp, arg, res>>
    /\ UNCHANGED <<hnd, spent, devIncr, trigFail>>

\* raw = self._read_reg(self.REG_TEMP_DATA, 2); if raw: return round(temp_c, 2)
TempRead ==
    /\ pc = "tmp_read"
    /\ \E k \in FaultPatterns, d \in DataWords :
         LET r == ReadReg(variant, k, d)
         IN  /\ rop' = ROp(REG_TEMP_DATA, k, r)
             /\ ideal' = (ideal /\ k = 0)
             /\ IF r.val.none \/ r.val.bytes = <<>>
                THEN /\ pc' = AfterTempRound(polls).pc
                     /\ ret' = AfterTempRound(polls).ret
                     /\ temp' = temp
                ELSE /\ pc' = "idle"
                     /\ ret' = "float"
                     /\ temp' = [none |-> FALSE,
                                 centi |-> TempCentiDegrees(r.val.bytes)]
    /\ ptLog' = Append(ptLog, REntry(REG_TEMP_DATA, 2))
    /\ UNCHANGED <<variant, op, cfg, cfgStep, i, polls, ready, rawReal, cur,
                   samples, busLog, cfgFail>>
    /\ UNCHANGED <<ptFail, incrWrites, arg, res>>
    /\ UNCHANGED <<hnd, spent, devIncr, trigFail>>
    /\ status' = NoStatus

-----------------------------------------------------------------------------
(* The sweep: AD5933.sweep_generator (gen) and test_sweep (drv) *)

\* gen = self.ad5933.sweep_generator(...) creates the suspended generator and
\* touches no register; test_sweep() starts to run at once
NewSweep ==
    /\ pc = "idle"
    /\ IF variant = "gen"
       THEN hnd = "before" /\ hnd' = "sweep"
       ELSE hnd = "none" /\ hnd' = hnd
    /\ \E c \in Configs :
         /\ (variant = "drv" => DrvTakes(c))
         /\ cfg' = c
    /\ op' = "sweep"
    /\ pc' = IF variant = "gen" THEN "created" ELSE "cfg"
    /\ busLog' = <<>>
    /\ rop' = NoOp
    /\ ideal' = TRUE
    /\ ret' = "none"
    /\ cfgStep' = 1
    /\ Fresh
    /\ UNCHANGED variant
    /\ UNCHANGED codecVars

\* the top of the per-point loop for index n, or its end
EnterIteration(n) ==
    /\ i' = n
    /\ polls' = 0
    /\ ready' = FALSE
    /\ pc' = IF n < LoopCount(variant, cfg) THEN "poll" ELSE "done"

\* the consumer's for loop asks the generator for its next sample
Pull ==
    /\ variant = "gen"
    /\ \/ /\ pc = "created"
          /\ pc' = "cfg"
          /\ UNCHANGED <<i, polls, ready, cur>>
       \/ /\ pc = "yielded"
          /\ cur' = NoSample
          /\ IF WantsIncrement(variant, cfg, i)
             THEN pc' = "incr" /\ UNCHANGED <<i, polls, ready>>
             ELSE EnterIteration(i + 1)
    /\ UNCHANGED <<variant, op, cfg, cfgStep, rawReal, samples, busLog, ptLog, rop,
                   cfgFail, ideal, ret>>
    /\ UNCHANGED <<ptFail, incrWrites, temp, arg, res>>
    /\ UNCHANGED <<hnd, spent, devIncr, trigFail>>
    /\ status' = NoStatus

\* a generator that runs its body again when pulled after its end
MutAfterEnd(p) == "cfg"

\* next() on a generator that has returned or raised: StopIteration is
\* raised at once and no statement of the body runs
AfterEnd(p) == p

\* a consumer pulls the ended generator again, as often as it likes
PullAgain ==
    /\ variant = "gen"
    /\ op = "sweep"
    /\ pc \in {"done", "raised"}
    /\ spent' = TRUE
    /\ pc' = AfterEnd(pc)
    /\ UNCHANGED <<variant, op, cfg, cfgStep, i, polls, ready, rawReal, cur,
                   samples, busLog, ptLog, rop, cfgFail, ideal, ret>>
    /\ UNCHANGED <<ptFail, incrWrites, temp, hnd, status, devIncr, trigFail,
                   arg, res>>

\* a sweep that goes on after configuration reported failure
MutAfterConfigure(result) == "init"

\* if not self.configure_sweep(...): return  (the generator ends)
\* if not ad.configure_frequency(...): return  (test_sweep ends)
AfterConfigure(result) == IF result = "False" THEN "done" ELSE "init"

\* one write of configure_sweep: the result of _write_reg is dropped
GenConfigStep ==
    /\ variant = "gen"
    /\ pc = "cfg"
    /\ \/ /\ ~(cfgStep = NumIncrStep /\ ~cfg.numIsInt)
          /\ \E k \in FaultPatterns :
               LET w == WriteReg(variant, k)
                   e == GenConfigWrites(cfg)[cfgStep]
               IN  /\ rop' = WOp(e.reg, k, w)
                   /\ ideal' = (ideal /\ k = 0)
                   /\ busLog' = Append(busLog, e)
                   /\ cfgFail' = IF cfgFail = 0 /\ ~Truthy(w.val)
                                 THEN cfgStep ELSE cfgFail
          /\ IF cfgStep = Len(GenConfigWrites(cfg))
             THEN pc' = AfterConfigure("True") /\ ret' = "True"
                  /\ cfgStep' = cfgStep
             ELSE pc' = "cfg" /\ ret' = ret /\ cfgStep' = cfgStep + 1
       \/ \* except Exception: return False; the generator then returns
          /\ cfgStep = NumIncrStep /\ ~cfg.numIsInt
          /\ ret' = "False"
          /\ pc' = AfterConfigure("False")
          /\ UNCHANGED <<rop, busLog, cfgFail, cfgStep, ideal>>
    /\ UNCHANGED <<variant, op, cfg, i, polls, ready, rawReal, cur, samples,
                   ptLog>>
    /\ UNCHANGED <<ptFail, incrWrites, temp, arg, res>>
    /\ UNCHANGED <<hnd, spent, devIncr, trigFail>>
    /\ status' = NoStatus

\* one write of configure_frequency: if not self._write_reg(...): return False
DrvConfigStep ==
    /\ variant = "drv"
    /\ pc = "cfg"
    /\ \E k \in FaultPatterns :
         LET w == WriteReg(variant, k)
             e == DrvConfigWrites(cfg)[cfgStep]
         IN  /\ rop' = WOp(e.reg, k, w)
             /\ ideal' = (ideal /\ k = 0)
             /\ busLog' = Append(busLog, e)
             /\ cfgFail' = IF cfgFail = 0 /\ ~Truthy(w.val)
                           THEN cfgStep ELSE cfgFail
             /\ IF ~Truthy(w.val)
                THEN pc' = AfterConfigure("False") /\ ret' = "False"
                     /\ cfgStep' = cfgStep
                ELSE IF cfgStep = Len(DrvConfigWrites(cfg))
                     THEN pc' = AfterConfigure("True") /\ ret' = "True"
                          /\ cfgStep' = cfgStep
                     ELSE pc' = "cfg" /\ ret' = ret /\ cfgStep' = cfgStep + 1
    /\ UNCHANGED <<variant, op, cfg, i, polls, ready, rawReal, cur, samples,
                   ptLog>>
    /\ UNCHANGED <<ptFail, incrWrites, temp, arg, res>>
    /\ UNCHANGED <<hnd, spent, devIncr, trigFail>>
    /\ status' = NoStatus

\* what follows a control write of the prologue: the generator goes on
\* whatever _write_reg returned, start_frequency_sweep returns False
AfterPrologueWrite(w, next) ==
    IF variant = "drv" /\ ~Truthy(w.val) THEN "done" ELSE next

\* self._write_reg(self.REG_CONTROL, self.CTRL_INIT_START)
InitStep ==
    /\ pc = "init"
    /\ \E k \in FaultPatterns :
         LET w == WriteReg(variant, k)
         IN  /\ rop' = WOp(REG_CONTROL, k, w)
             /\ ideal' = (ideal /\ k = 0)
             /\ pc' = AfterPrologueWrite(w, "start")
    /\ busLog' = Append(busLog, WEntry(REG_CONTROL, <<CTRL_INIT_START>>))
    /\ UNCHANGED <<variant, op, cfg, cfgStep, i, polls, ready, rawReal, cur,
                   samples, ptLog, cfgFail, ret>>
    /\ UNCHANGED <<ptFail, incrWrites, temp, arg, res>>
    /\ UNCHANGED <<hnd, spent, devIncr, trigFail>>
    /\ status' = NoStatus

\* self._write_reg(self.REG_CONTROL, self.CTRL_START_SWEEP), then the loop
StartStep ==
    /\ pc = "start"
    /\ \E k \in FaultPatterns :
         LET w == WriteReg(variant, k)
         IN  /\ rop' = WOp(REG_CONTROL, k, w)
             /\ ideal' = (ideal /\ k = 0)
             /\ IF AfterPrologueWrite(w, "loop") = "done"
                THEN pc' = "done" /\ UNCHANGED <<i, polls, ready>>
                ELSE EnterIteration(0)
    /\ busLog' = Append(busLog, WEntry(REG_CONTROL, <<CTRL_START_SWEEP>>))
    /\ UNCHANGED <<variant, op, cfg, cfgStep, rawReal, cur, samples, ptLog,
                   cfgFail, ret>>
    /\ UNCHANGED <<ptFail, incrWrites, temp, arg, res>>
    /\ UNCHANGED <<hnd, spent, devIncr, trigFail>>
    /\ status' = NoStatus

-----------------------------------------------------------------------------
(* The per-point loop *)

\* the log of an iteration starts with its first status read
LogPoint(e) == IF polls = 0 THEN <<e>> ELSE Append(ptLog, e)

\* gen: status = self._read_reg(self.REG_STATUS)[0]; if status & 0x02: break
\*      (None[0] raises TypeError out of the generator; after 20 polls the
\*      loop falls through to the reads)
\* drv: status = ad.get_status() (0 when the read failed);
\*      20 polls without bit 1: "Timeout waiting for data", continue
PollStep ==
    /\ pc = "poll"
    /\ polls < PollBudget
    /\ \E k \in FaultPatterns, s \in StatusBytes :
         LET r == ReadReg(variant, k, <<s>>)
             st == IF variant = "gen" THEN GenStatus(r) ELSE DrvGetStatus(r)
         IN  /\ rop' = ROp(REG_STATUS, k, r)
             /\ status' = st
             /\ ideal' = (ideal /\ k = 0 /\ Bit(s, 1) = 1)
             /\ ptFail' = (ptFail \/ r.val.none)
             /\ IF variant = "gen" /\ r.val.none
                THEN pc' = "raised" /\ polls' = polls + 1 /\ UNCHANGED <<i, ready>>
                ELSE IF Bit(st.v, 1) = 1
                THEN pc' = "real" /\ polls' = polls + 1 /\ ready' = TRUE /\ i' = i
                ELSE IF polls + 1 < PollBudget
                THEN pc' = "poll" /\ polls' = polls + 1 /\ UNCHANGED <<i, ready>>
                ELSE IF variant = "gen"
                THEN pc' = "real" /\ polls' = polls + 1 /\ UNCHANGED <<i, ready>>
                ELSE EnterIteration(i + 1)
    /\ ptLog' = LogPoint(REntry(REG_STATUS, 1))
    /\ cur' = NoSample
    /\ UNCHANGED <<variant, op, cfg, cfgStep, rawReal, samples, busLog,
                   cfgFail, ret>>
    /\ UNCHANGED <<incrWrites, temp, arg, res>>
    /\ UNCHANGED <<hnd, spent, devIncr, trigFail>>

\* raw_real = self._read_reg(self.REG_REAL, 2)
ReadReal ==
    /\ pc = "real"
    /\ \E k \in FaultPatterns, d \in DataWords :
         LET r == ReadReg(variant, k, d)
         IN  /\ rop' = ROp(REG_REAL, k, r)
             /\ ideal' = (ideal /\ k = 0)
             /\ ptFail' = (ptFail \/ r.val.none)
             /\ rawReal' = r.val
    /\ pc' = "imag"
    /\ ptLog' = Append(ptLog, REntry(REG_REAL, 2))
    /\ UNCHANGED <<variant, op, cfg, cfgStep, i, polls, ready, cur, samples,
                   busLog, cfgFail, ret>>
    /\ UNCHANGED <<incrWrites, temp, arg, res>>
    /\ UNCHANGED <<hnd, spent, devIncr, trigFail>>
    /\ status' = NoStatus

\* a generator that goes on to the increment write without waiting for the
\* consumer
MutGenAfterSample(bad) == IF bad THEN "raised" ELSE "incr"

\* int.from_bytes(None, ...) raises out of the generator; otherwise the
\* generator is suspended at yield (freq, real_val, imag_val, magnitude)
GenAfterSample(bad) == IF bad THEN "raised" ELSE "yielded"

\* raw_imag = self._read_reg(self.REG_IMAG, 2), the conversion and the sample
\* gen: int.from_bytes(None, ...) raises TypeError; otherwise yield
\* drv: read_complex_data returns None when either read failed and the point
\*      is not recorded; then the increment write unless it is the last point
ReadImag ==
    /\ pc = "imag"
    /\ \E k \in FaultPatterns, d \in DataWords :
         LET r == ReadReg(variant, k, d)
             bad == rawReal.none \/ r.val.none
             smp == IF variant = "gen"
                    THEN GenSample(cfg, i, rawReal, r.val)
                    ELSE DrvSample(cfg, i, rawReal, r.val)
         IN  /\ rop' = ROp(REG_IMAG, k, r)
             /\ ideal' = (ideal /\ k = 0)
             /\ ptFail' = (ptFail \/ r.val.none)
             /\ IF bad
                THEN UNCHANGED <<cur, samples>>
                ELSE /\ cur' = smp
                     /\ samples' = Append(samples, [idx |-> smp.idx, freq |-> smp.freq])
             /\ IF variant = "gen"
                THEN /\ pc' = GenAfterSample(bad)
                     /\ UNCHANGED <<i, polls, ready>>
                ELSE IF WantsIncrement(variant, cfg, i)
                     THEN pc' = "incr" /\ UNCHANGED <<i, polls, ready>>
                     ELSE EnterIteration(i + 1)
    /\ rawReal' = PyNone
    /\ ptLog' = Append(ptLog, REntry(REG_IMAG, 2))
    /\ UNCHANGED <<variant, op, cfg, cfgStep, busLog, cfgFail, ret>>
    /\ UNCHANGED <<incrWrites, temp, arg, res>>
    /\ UNCHANGED <<hnd, spent, devIncr, trigFail>>
    /\ status' = NoStatus

\* self._write_reg(self.REG_CONTROL, self.CTRL_INCR_FREQ): result dropped
IncrStep ==
    /\ pc = "incr"
    /\ \E k \in FaultPatterns :
         LET w == WriteReg(variant, k)
         IN  /\ rop' = WOp(REG_CONTROL, k, w)
             /\ ideal' = (ideal /\ k = 0)
             /\ ptFail' = (ptFail \/ ~Truthy(w.val))
             /\ devIncr' = IF Truthy(w.val) THEN devIncr + 1 ELSE devIncr
    /\ ptLog' = Append(ptLog, WEntry(REG_CONTROL, <<CTRL_INCR_FREQ>>))
    /\ EnterIteration(i + 1)
    /\ UNCHANGED <<variant, op, cfg, cfgStep, rawReal, cur, samples, busLog,
                   cfgFail, ret>>
    /\ incrWrites' = incrWrites + 1
    /\ UNCHANGED <<temp, arg, res>>
    /\ UNCHANGED <<hnd, spent, trigFail>>
    /\ status' = NoStatus

\* a for loop that is left while the generator stands at a yield
MutEnded(p) == p \in {"done", "raised", "yielded"}

\* the for loop over the generator is over: the generator has returned or
\* raised; test_sweep has returned
Ended(p) == p \in {"done", "raised"}

\* the sweep is over and the controller keeps nothing of it.  start_sweep of
\* the GUI goes on after its for loop with temp_after =
\* self.ad5933.measure_temperature(); an exception out of the generator ends
\* start_sweep in its except clause; test_sweep returns to its caller
Return ==
    /\ op = "sweep"
    /\ Ended(pc)
    /\ IF variant = "gen" /\ pc # "raised"
       THEN op' = "temp" /\ pc' = "tmp_w" /\ hnd' = "after"
       ELSE op' = "none" /\ pc' = "idle" /\ hnd' = "none"
    /\ cfg' = NoCfg
    /\ cfgStep' = 0
    /\ busLog' = <<>>
    /\ rop' = NoOp
    /\ ideal' = TRUE
    /\ ret' = "none"
    /\ Fresh
    /\ UNCHANGED variant
    /\ UNCHANGED codecVars

-----------------------------------------------------------------------------
(* Specifications *)

\* the code of a running call: each step returns (bounded bus latency,
\* blocking sleeps), and start_sweep's for loop pulls until exhaustion
Step ==
    \/ ResetPowerDown
    \/ ResetStandby
    \/ ResetStatus
    \/ TempWrite
    \/ TempPoll
    \/ TempRead
    \/ SweepDone
    \/ Pull
    \/ GenConfigStep
    \/ DrvConfigStep
    \/ InitStep
    \/ StartStep
    \/ PollStep
    \/ ReadReal
    \/ ReadImag
    \/ IncrStep

Next ==
    \/ CallWriteReg
    \/ CallReadReg
    \/ CallReset
    \/ CallMeasureTemperature
    \/ StartSweep
    \/ NewSweep
    \/ PullAgain
    \/ Step
    \/ Return

Spec == Init /\ [][Next]_vars

FairSpec == Spec /\ WF_vars(Step)

-----------------------------------------------------------------------------
(* The controller's arithmetic alone: the decoding of a temperature word and *)
(* the codes and bytes configure_sweep / configure_frequency compute from    *)
(* their arguments, over the whole range of the arguments                    *)

\* start_sweep of gui.py: 1000 <= start_freq <= 100000, 1 <= num_points <= 511
GuiMinFreq == 1000
GuiMaxFreq == 100000
GuiMaxPoints == 511
GuiAcceptsPoints(n) == 1 <= n /\ n <= GuiMaxPoints

\* one frequency explored above the 24-bit range of the code: configure_sweep
\* takes it from a caller that does not check (start_sweep of main.py)
WideFreq == 600000

\* the multipliers of the settling time: "can be 1, 2, or 4 per datasheet"
SettleMultipliers == {1, 2, 4}

\* data words explored by CodecSpec as real and imaginary part: 3, -3, 4, -4,
\* 0 and the largest word
SampleWords == {<<0, 3>>, <<255, 253>>, <<0, 4>>, <<255, 252>>, <<0, 0>>,
                <<127, 255>>}

\* the values of a byte
ByteValues == 0..255

\* lists handed to _write_reg: every list of up to three of these bytes
ListBytes == {0, 1, 128, 255}
WriteLists == UNION {[1..n -> ListBytes] : n \in 0..3}

CodecConfig(f, g, n) ==
    [start |-> f, incr |-> g, N |-> n, range |-> 1, gainX1 |-> TRUE,
     numIsInt |-> TRUE]

\* cycle counts given to configure_settling_time ahead of a sweep: the one
\* configure_sweep writes itself, the default of the settings panel of gui.py
\* and two more
SettleChoices == {10, 15, 100, 511}

\* the arguments explored: every temperature word of the 14-bit field; every
\* start frequency start_sweep of gui.py admits, with an increment that runs
\* over the same range; every increment count up to MaxCodecIncr; WideFreq
CodecInputIs(a) ==
    \/ \E h \in 0..MaxTempHigh, l \in 0..255 :
          a = [fn |-> "temp", bytes |-> <<h, l>>]
    \/ \E f \in GuiMinFreq..GuiMaxFreq :
          a = [fn |-> "sweep", c |-> CodecConfig(f, GuiMinFreq + GuiMaxFreq - f, 1)]
    \/ \E n \in 0..MaxCodecIncr :
          a = [fn |-> "sweep", c |-> CodecConfig(30000, 100, n)]
    \/ a = [fn |-> "sweep", c |-> CodecConfig(WideFreq, 100, 1)]
    \/ \E c \in 0..MaxSettleCycles, m \in SettleMultipliers :
          a = [fn |-> "settle", cycles |-> c, mult |-> m]
    \/ \E x \in SampleWords, y \in SampleWords :
          a = [fn |-> "sample", re |-> x, im |-> y]
    \/ a = [fn |-> "sample", re |-> <<128, 0>>, im |-> <<0, 0>>]
    \/ \E h \in ByteValues, l \in ByteValues :
          a = [fn |-> "word", bytes |-> <<h, l>>]
    \/ \E b \in ByteValues, k \in FaultPatterns :
          a = [fn |-> "write", reg |-> REG_CONTROL, data |-> PyInt(b), k |-> k]
    \/ \E l \in WriteLists, k \in FaultPatterns :
          a = [fn |-> "write", reg |-> REG_START_FREQ, data |-> PyList(l), k |-> k]
    \/ \E c \in SettleChoices, m \in SettleMultipliers, k \in FaultPatterns,
          n \in 0..MaxIncr :
          a = [fn |-> "settled", cycles |-> c, mult |-> m, k |-> k,
               c |-> CodecConfig(30000, 100, n)]
    \/ \E d \in {<<0>>, <<2>>} \cup DataWords, k \in FaultPatterns :
          a = [fn |-> "read", reg |-> IF Len(d) = 1 THEN REG_STATUS ELSE REG_REAL,
               n |-> Len(d), data |-> d, k |-> k]

CodecInit ==
    /\ variant = "gen"
    /\ op = "none"
    /\ pc = "idle"
    /\ cfg = NoCfg
    /\ cfgStep = 0
    /\ i = 0
    /\ polls = 0
    /\ ready = FALSE
    /\ rawReal = PyNone
    /\ cur = NoSample
    /\ samples = <<>>
    /\ busLog = <<>>
    /\ ptLog = <<>>
    /\ rop = NoOp
    /\ cfgFail = 0
    /\ ideal = TRUE
    /\ ret = "none"
    /\ ptFail = FALSE
    /\ incrWrites = 0
    /\ temp = NoTemp
    /\ hnd = "none"
    /\ spent = FALSE
    /\ status = NoStatus
    /\ devIncr = 0
    /\ trigFail = FALSE
    /\ CodecInputIs(arg)
    /\ res = NoRes

busVars == <<variant, op, pc, cfg, cfgStep, i, polls, ready, rawReal, cur,
             samples, busLog, ptLog, rop, cfgFail, ideal, ret, ptFail,
             incrWrites, temp, hnd, spent, status, devIncr, trigFail>>

\* the value measure_temperature computes from the temperature word
DecodeTemperature ==
    /\ arg.fn = "temp"
    /\ res = NoRes
    /\ res' = [fn |-> "temp", centi |-> TempCentiDegrees(arg.bytes)]
    /\ UNCHANGED arg
    /\ UNCHANGED busVars

\* start_code, incr_code and the data of the writes of configure_sweep and
\* of configure_frequency
ComputeSweepCodes ==
    /\ arg.fn = "sweep"
    /\ res = NoRes
    /\ res' = [fn |-> "sweep",
               startCode |-> FreqCode(arg.c.start),
               incrCode |-> FreqCode(arg.c.incr),
               gen |-> GenConfigWrites(arg.c),
               drv |-> DrvConfigWrites(arg.c)]
    /\ UNCHANGED arg
    /\ UNCHANGED busVars

\* configure_settling_time called as apply_advanced_settings calls it, the
\* controller built with debug=True, over a transport that does not fault
ApplySettlingTime ==
    /\ arg.fn = "settle"
    /\ res = NoRes
    /\ res' = [fn |-> "settle",
               w |-> ConfigureSettlingTime(TRUE, arg.cycles, arg.mult, 0)]
    /\ UNCHANGED arg
    /\ UNCHANGED busVars

\* the payload of the last of the messages msgs that went to register reg:
\* what the register holds once the transport has delivered them in order
RegisterAfter(reg, msgs) ==
    LET s == SelectSeq(msgs, LAMBDA m : m[1] = reg)
    IN  IF s = <<>> THEN <<>> ELSE Tail(s[Len(s)])

\* the messages of the writes sweep_generator makes before its first status
\* read: those of configure_sweep, the initialize and the start-sweep write
GenSweepMessages(c) ==
    LET w == GenConfigWrites(c)
    IN  [j \in 1..Len(w) |-> GenMessage(w[j].reg, PyList(w[j].data))]
        \o <<GenMessage(REG_CONTROL, PyInt(CTRL_INIT_START)),
             GenMessage(REG_CONTROL, PyInt(CTRL_START_SWEEP))>>

\* configure_settling_time as apply_advanced_settings calls it, over a
\* transport with fault pattern k, then a sweep over a transport that does
\* not fault, up to its first measurement: first is the result of the call,
\* held the content of the settling register at that measurement
SettleThenSweep ==
    /\ arg.fn = "settled"
    /\ res = NoRes
    /\ LET first == ConfigureSettlingTime(TRUE, arg.cycles, arg.mult, arg.k)
           delivered == IF Truthy(first.val) THEN first.sent ELSE <<>>
       IN  res' = [fn |-> "settled",
                   first |-> first,
                   held |-> RegisterAfter(REG_SETTLE_CYCLES,
                                          delivered \o GenSweepMessages(arg.c))]
    /\ UNCHANGED arg
    /\ UNCHANGED busVars

\* the sample sweep_generator yields and the one test_sweep prints for the
\* data words read, with the magnitude each computes
ComputeSample ==
    /\ arg.fn = "sample"
    /\ res = NoRes
    /\ LET g == GenSample(CodecConfig(30000, 100, 1), 0, PyBytes(arg.re), PyBytes(arg.im))
           d == DrvSample(CodecConfig(30000, 100, 1), 0, PyBytes(arg.re), PyBytes(arg.im))
       IN  res' = [fn |-> "sample", gen |-> g, drv |-> d,
                   genMag |-> Magnitude(g.magSq), drvMag |-> Magnitude(d.magSq)]
    /\ UNCHANGED arg
    /\ UNCHANGED busVars

\* the signed value each controller makes of a data word
DecodeWord ==
    /\ arg.fn = "word"
    /\ res = NoRes
    /\ res' = [fn |-> "word",
               gen |-> FromBytesSigned(arg.bytes),
               drv |-> FromBytesCorrected(arg.bytes)]
    /\ UNCHANGED arg
    /\ UNCHANGED busVars

\* one call of _write_reg in each controller, built with debug=True (on) and
\* with debug=False (off), over the same transport
TransmitWrite ==
    /\ arg.fn = "write"
    /\ res = NoRes
    /\ res' = [fn |-> "write",
               genOn |-> GenWriteTraced(TRUE, arg.reg, arg.data, arg.k),
               genOff |-> GenWriteTraced(FALSE, arg.reg, arg.data, arg.k),
               drvOn |-> DrvWriteTraced(TRUE, arg.reg, arg.data, arg.k),
               drvOff |-> DrvWriteTraced(FALSE, arg.reg, arg.data, arg.k)]
    /\ UNCHANGED arg
    /\ UNCHANGED busVars

\* one call of _read_reg in each controller, with debug=True and debug=False
TransmitRead ==
    /\ arg.fn = "read"
    /\ res = NoRes
    /\ res' = [fn |-> "read",
               genOn |-> GenReadTraced(TRUE, arg.reg, arg.n, arg.k, arg.data),
               genOff |-> GenReadTraced(FALSE, arg.reg, arg.n, arg.k, arg.data),
               drvOn |-> DrvReadTraced(TRUE, arg.reg, arg.n, arg.k, arg.data),
               drvOff |-> DrvReadTraced(FALSE, arg.reg, arg.n, arg.k, arg.data)]
    /\ UNCHANGED arg
    /\ UNCHANGED busVars

CodecNext ==
    \/ DecodeTemperature
    \/ ComputeSweepCodes
    \/ ApplySettlingTime
    \/ SettleThenSweep
    \/ ComputeSample
    \/ DecodeWord
    \/ TransmitWrite
    \/ TransmitRead

CodecSpec == CodecInit /\ [][CodecNext]_vars

-----------------------------------------------------------------------------
(* Reading the logs *)

\* the protocol name of a logged register operation
Tag(e) ==
    IF e.kind = "r"
    THEN CASE e.reg = REG_STATUS -> "status"
           [] e.reg = REG_REAL -> "real"
           [] e.reg = REG_IMAG -> "imag"
           [] e.reg = REG_TEMP_DATA -> "temp_data"
           [] OTHER -> "read"
    ELSE CASE e.reg = REG_START_FREQ -> "start_freq"
           [] e.reg = REG_FREQ_INCR -> "freq_incr"
           [] e.reg = REG_NUM_INCR -> "num_incr"
           [] e.reg = REG_SETTLE_CYCLES -> "settle"
           [] e.reg = REG_CONTROL /\ Len(e.data) = 2 -> "control"
           [] e.reg = REG_CONTROL /\ e.data = <<CTRL_POWER_DOWN>> -> "power_down"
           [] e.reg = REG_CONTROL /\ e.data = <<CTRL_STANDBY>> -> "standby"
           [] e.reg = REG_CONTROL /\ e.data = <<CTRL_INIT_START>> -> "init"
           [] e.reg = REG_CONTROL /\ e.data = <<CTRL_START_SWEEP>> -> "start_sweep"
           [] e.reg = REG_CONTROL /\ e.data = <<CTRL_INCR_FREQ>> -> "incr_freq"
           [] e.reg = REG_CONTROL /\ e.data = <<CTRL_MEAS_TEMP>> -> "meas_temp"
           [] OTHER -> "write"

Tags(log) == [j \in 1..Len(log) |-> Tag(log[j])]

IsPrefix(a, b) == Len(a) <= Len(b) /\ \A j \in 1..Len(a) : a[j] = b[j]

\* every transport call of the latest register operation faulted
AllFaulted(o) == \A a \in 1..o.calls : Faulty(o.faults, a)

SweepEnded == op = "sweep" /\ pc \in {"done", "raised"}

-----------------------------------------------------------------------------
(* C1..C10 *)

\* C1: for every integer numIncrements N, a sweep over a transport that never
\* faults and always reports data-ready yields exactly N + 1 samples, the i-th
\* of them carrying frequencyHz = start + i * increment.
C1_PointCount ==
    (SweepEnded /\ ideal /\ cfg.numIsInt) =>
        /\ Len(samples) = cfg.N + 1
        /\ \A j \in 1..Len(samples) :
             /\ samples[j].idx = j - 1
             /\ samples[j].freq = cfg.start + (j - 1) * cfg.incr

\* C1, as far as it holds: the generator of ad5933.py
C1_GeneratorPointCount == variant = "gen" => C1_PointCount

\* C2: when the transport faults on every attempt, writeRegister returns
\* failure after exactly 3 transport write calls - not fewer, not more - and
\* leaves nothing else on the bus.
C2_RetryExhaustion ==
    (op = "write" /\ rop.kind = "w" /\ rop.faults = MaxFaults) =>
        /\ rop.wval = "False"
        /\ rop.calls = 3
        /\ Len(busLog) = 1

\* C3: a transient fault stays inside the register layer: if the first k < 3
\* attempts of a register write or read fault and the next one succeeds, the
\* operation succeeds after exactly k + 1 transport calls.
C3_TransientInvisible ==
    (rop.kind \in {"w", "r"} /\ rop.faults < 3 /\ rop.faults < MaxFaults) =>
        /\ rop.ok
        /\ rop.calls = rop.faults + 1

\* C4: readRegister makes at most 3 transport calls, as many as writeRegister
\* makes under the same faults, and when all of them fault it returns a value
\* that no successful read returns - not even a successful read of zero bytes;
\* a read that got through returns bytes.
C4_ReadFailureDistinct ==
    rop.kind = "r" =>
        /\ rop.calls >= 1 /\ rop.calls <= 3
        /\ rop.calls = WriteReg(variant, rop.faults).calls
        /\ AllFaulted(rop) =>
             /\ rop.val.none
             /\ rop.val # PyBytes(<<>>)
             /\ \A d \in DataWords : rop.val # PyBytes(d)
        /\ ~AllFaulted(rop) => ~rop.val.none

\* a read whose three attempts all faulted has returned None
C4_Witness ==
    /\ op = "read"
    /\ rop.kind = "r"
    /\ rop.faults = MaxFaults
    /\ rop.calls = 3
    /\ rop.val = PyNone


\* C5: configureSweep returns failure whenever one of its register writes
\* failed (for instance the frequency-increment write after a good
\* start-frequency write), and the sweep built on it yields no sample.
C5_ConfigAtomic ==
    (op = "sweep" /\ cfgFail # 0 /\ ret # "none") =>
        /\ ret = "False"
        /\ samples = <<>>

\* the writes of the configuration routine: everything logged before the
\* initialize and start-sweep codes
ConfigLog == SelectSeq(busLog, LAMBDA e : Tag(e) \notin {"init", "start_sweep"})

ClaimedConfigOrder ==
    <<"power_down", "standby", "control", "start_freq", "freq_incr", "num_incr",
      "settle">>

\* a is a run of consecutive elements of b
IsSegment(a, b) ==
    \E o \in 0..Len(b) :
        /\ o + Len(a) <= Len(b)
        /\ \A j \in 1..Len(a) : a[j] = b[o + j]

\* C6: once a register write inside configureSweep has failed no further write
\* is issued: the writes follow the order (power-down, standby, control,
\* start-frequency, frequency-increment, increment-count, settling-cycles)
\* and end at the first failed write.
C6_AbortAtFirstFailure ==
    op = "sweep" =>
        /\ IsSegment(Tags(ConfigLog), ClaimedConfigOrder)
        /\ cfgFail # 0 => Len(ConfigLog) = cfgFail

\* C6, read to the letter: the writes are a prefix of the seven-element list,
\* which configure_frequency (no power-down, standby or control write) is not
C6_PrefixOfClaimedOrder ==
    op = "sweep" => IsPrefix(Tags(ConfigLog), ClaimedConfigOrder)

\* C6, as far as it holds: the driver's configure_frequency stops at the
\* first failed write
C6_DriverStopsAtFailure ==
    (op = "sweep" /\ variant = "drv") =>
        /\ IsSegment(Tags(ConfigLog), ClaimedConfigOrder)
        /\ cfgFail # 0 => Len(ConfigLog) = cfgFail

\* C7: when configureSweep reports failure the sweep yields no sample and ends
\* without raising: no initialize or start-sweep code is written, no status or
\* data register is read, no error-valued sample is handed out.
C7_FailedConfigYieldsNothing ==
    (op = "sweep" /\ ret = "False") =>
        /\ pc \in {"done", "idle"}
        /\ samples = <<>>
        /\ cur = NoSample
        /\ ptLog = <<>>
        /\ \A j \in 1..Len(busLog) :
             /\ busLog[j].kind = "w"
             /\ Tag(busLog[j]) \notin {"init", "start_sweep", "incr_freq"}

\* a sweep has ended after its configuration returned False
C7_Witness ==
    /\ op = "sweep"
    /\ ret = "False"
    /\ pc = "done"
    /\ busLog # <<>>

\* the log and the result of reset(): the three operations in order, True
\* exactly when the status read was reached and did not fail
C8_ResetLog ==
    op = "reset" =>
        /\ IsPrefix(Tags(busLog), <<"power_down", "standby", "status">>)
        /\ (pc = "idle" /\ busLog # <<>>) =>
             /\ ret \in {"True", "False"}
             /\ ret = "True" <=> (Len(busLog) = 3 /\ rop.kind = "r" /\ rop.ok)
        /\ pc # "idle" => ret = "none"

\* a step of reset(): the standby write and the status read are made only
\* when the write before them succeeded
C8_ResetStep ==
    /\ (pc = "rst_sb" /\ pc' # "rst_sb") =>
          (rop.kind = "w" /\ rop.ok /\ Tags(busLog) = <<"power_down">>)
    /\ (pc = "rst_st" /\ pc' # "rst_st") =>
          (rop.kind = "w" /\ rop.ok /\ Tags(busLog) = <<"power_down", "standby">>)

\* C8: reset() writes power-down, then standby, then reads status, in that
\* order; it returns success exactly when both writes and the final status
\* read succeeded, whatever the status byte holds, and it never writes standby
\* unless the power-down write before it succeeded.
C8_ResetSequence == [](C8_ResetLog) /\ [][C8_ResetStep]_vars

\* reset() has returned True on a status byte of zero
C8_Witness ==
    /\ op = "reset"
    /\ pc = "idle"
    /\ ret = "True"
    /\ rop.val = PyBytes(<<0>>)
    /\ Len(busLog) = 3

ProtocolPrologue ==
    ClaimedConfigOrder \o <<"init", "start_sweep">>

\* status polls, then the real read, the imaginary read, the increment write
PointOrder(t) ==
    \E n \in 1..Len(t) :
        /\ \A j \in 1..n : t[j] = "status"
        /\ IsPrefix(SubSeq(t, n + 1, Len(t)), <<"real", "imag", "incr_freq">>)

\* C9: in every sweep that yields a sample the bus operations come in protocol
\* order: power-down, standby, control, start-frequency, frequency-increment,
\* increment-count, settling-cycles, initialize, start-sweep, and per point the
\* status polls, the real read, the imaginary read and the increment write; no
\* status or data register is read before start-sweep was written.
C9_ProtocolOrder ==
    /\ (op = "sweep" /\ samples # <<>>) =>
          /\ Tags(busLog) = ProtocolPrologue
          /\ PointOrder(Tags(ptLog))
    /\ (op = "sweep" /\ ptLog # <<>>) =>
          (busLog # <<>> /\ Tag(busLog[Len(busLog)]) = "start_sweep")

\* C9, as far as it holds: the generator of ad5933.py
C9_GeneratorOrder == variant = "gen" => C9_ProtocolOrder

StatusReads(log) == Len(SelectSeq(log, LAMBDA e : Tag(e) = "status"))

\* the budgets of a sweep
C10_Budgets ==
    /\ polls <= 20
    /\ StatusReads(ptLog) <= 20
    /\ rop.calls <= 3
    /\ op = "sweep" =>
         /\ i <= cfg.N + 1
         /\ pc \notin {"done", "idle"} => i <= cfg.N
         /\ Len(samples) <= cfg.N + 1

SweepRunning == op = "sweep" /\ pc # "idle"

\* C10: every sweep ends, whatever the device does - also when data-ready is
\* never set and when every bus operation faults: a point takes at most 20
\* status reads, a register operation at most 3 transport calls, a sweep with
\* N increments at most N + 1 points.
C10_SweepTerminates == [](C10_Budgets) /\ (SweepRunning ~> SweepEnded)

\* a sweep has ended although no status read ever showed data ready
C10_Witness ==
    /\ SweepEnded
    /\ pc = "done"
    /\ ~ready
    /\ cfg.N = MaxIncr
    /\ StatusReads(ptLog) = 20

-----------------------------------------------------------------------------
(* C11..C20 *)

\* C11: once a register operation of the per-point loop has failed (a status
\* read while polling, a real or imaginary read, the increment-frequency
\* write) the sweep hands out no further sample, neither for that point nor
\* for a later one.
C11_FailureEndsSequence ==
    [][(op' = "sweep" /\ ptFail') => Len(samples') <= Len(samples)]_vars

\* C11, as far as it holds: a failed read ends the generator of ad5933.py
\* before the sample of its point (by the TypeError of C12)
C11_GeneratorReadFailureEnds ==
    (variant = "gen" /\ op = "sweep" /\ rop.kind = "r" /\ ~rop.ok) =>
        /\ pc \in {"imag", "raised"}
        /\ cur = NoSample

\* C12: no bus fault surfaces as an uncaught error out of the sweep: whatever
\* the transport does, asking for the next sample either hands out a sample or
\* ends the sequence, and never raises to the consumer.
C12_NoUncaughtFault == pc # "raised"

\* C12, as far as it holds: test_sweep of ad5933-driver.py never raises
C12_DriverNeverRaises == variant = "drv" => pc # "raised"

\* C13: a sample is handed out only for a point one of whose status reads
\* returned with bit 1 (data ready) set; a point whose 20 polls never showed
\* the bit yields no sample.
C13_SampleOnlyWhenReady ==
    [][(op = "sweep" /\ Len(samples') > Len(samples)) => ready]_vars

\* C13, as far as it holds: test_sweep skips the point
C13_DriverSkipsPoint ==
    [][(variant = "drv" /\ op = "sweep" /\ Len(samples') > Len(samples))
          => ready]_vars

\* C14: the increment-frequency code is written after the sample of point
\* index exactly when index < numIncrements and never after the sample of the
\* last point, so that a fault-free sweep with N increments has written it
\* index times when it reaches point index, and N times when it ends.
C14_IncrementCount ==
    (op = "sweep" /\ cfg.numIsInt) =>
        /\ pc = "incr" => i < cfg.N
        /\ (ideal /\ pc \in {"poll", "real", "imag", "yielded"}) => incrWrites = i
        /\ (ideal /\ SweepEnded) => incrWrites = cfg.N

\* C14, as far as it holds: the generator of ad5933.py
C14_GeneratorIncrementCount == variant = "gen" => C14_IncrementCount

\* C15: measure_temperature writes the measure-temperature code once, before
\* any poll, then reads the status register at most 20 times; it reads the
\* temperature register only right after a status read that returned with
\* bit 0 set, and it returns None when no status read showed bit 0.
C15_TemperaturePolling ==
    op = "temp" =>
        /\ Tags(busLog) = IF pc = "tmp_w" THEN <<>> ELSE <<"meas_temp">>
        /\ pc = "tmp_w" => (polls = 0 /\ ptLog = <<>>)
        /\ polls <= 20
        /\ Tags(ptLog) \in {<<>>, <<"status">>, <<"status", "temp_data">>}
        /\ pc = "tmp_read" =>
             /\ rop.kind = "r" /\ rop.reg = REG_STATUS /\ rop.ok
             /\ Bit(rop.val.bytes[1], 0) = 1
        /\ rop.reg = REG_TEMP_DATA => (ready /\ Len(ptLog) = 2)
        /\ (pc = "idle" /\ ~ready) => (ret = "None" /\ temp = NoTemp)
        /\ (pc = "idle" /\ ret = "float") =>
             (ready /\ rop.reg = REG_TEMP_DATA /\ rop.ok /\ ~temp.none)

\* measure_temperature has returned None after 20 good status reads none of
\* which showed bit 0
C15_Witness ==
    /\ op = "temp"
    /\ pc = "idle"
    /\ polls = 20
    /\ ~ready
    /\ rop.reg = REG_STATUS /\ rop.ok
    /\ ret = "None"

\* the temperature word of the state as an unsigned number, and what the
\* claim divides by 32
TempRaw == 256 * arg.bytes[1] + arg.bytes[2]
TempField == IF Bit(TempRaw, 13) = 1 THEN TempRaw - 16384 ELSE TempRaw

\* C16: measure_temperature decodes the temperature word as a signed 14-bit
\* field: for every raw value in 0..0x3FFF the result is raw / 32 when bit 13
\* is clear and (raw - 16384) / 32 when it is set; raw 0x1FFF gives 255.97
\* and raw 0x3FFF gives -0.03125.  (The result is held in hundredths, so
\* result = x / 32 reads 32 * centi = 100 * x.)
C16_TemperatureDecoding ==
    (res.fn = "temp" /\ TempRaw <= 16383) =>
        /\ 32 * res.centi = 100 * TempField
        /\ TempRaw = 8191 => res.centi = 25597
        /\ TempRaw = 16383 => 32 * res.centi = 0 - 100

\* C16 as amended: the result is that quotient rounded to two decimals, the
\* nearest hundredth and on a tie the even one; raw 0x1FFF gives 255.97 and
\* raw 0x3FFF gives -0.03
C16_TemperatureDecodingRounded ==
    (res.fn = "temp" /\ TempRaw <= 16383) =>
        LET err == 32 * res.centi - 100 * TempField
        IN  /\ err >= 0 - 16 /\ err <= 16
            /\ err \in {0 - 16, 16} => res.centi % 2 = 0
            /\ TempRaw = 8191 => res.centi = 25597
            /\ TempRaw = 16383 => res.centi = 0 - 3

\* the word 0x3FFF has been decoded to -0.03
C16_Witness ==
    /\ res.fn = "temp"
    /\ arg.bytes = <<63, 255>>
    /\ res.centi = 0 - 3

\* code * masterClockHz / 2^27 differs from f by at most masterClockHz / 2^27,
\* that is |f * 2^19 - code * 15625| <= 15625 (4000000 / 2^27 = 15625 / 2^19),
\* evaluated in stages that stay within 32 bits:
\*   code = hi * 2^19 + m * 2^9 + l,  a = f - hi * 15625,
\*   f * 2^19 - code * 15625 = 2^9 * (a * 2^10 - m * 15625) - l * 15625
WithinOneStep(f, code) ==
    LET c == 15625
        hi == code \div 524288
        m == (code % 524288) \div 512
        l == code % 512
        a == f - hi * c
        b == a * 1024 - m * c
        d == 512 * b - l * c
    IN  /\ a >= 0 /\ a <= c
        /\ b >= 0 - c /\ b <= 2 * c
        /\ d >= 0 - c /\ d <= c

\* C17: for every frequency f in [1 kHz, 100 kHz] the frequency code the
\* controller computes, decoded as code * 4 MHz / 2^27, is within one
\* quantization step (4 MHz / 2^27) of f; so for the start frequency and for
\* the increment.
C17_FrequencyRoundTrip ==
    (/\ res.fn = "sweep"
     /\ arg.c.start >= 1000 /\ arg.c.start <= 100000
     /\ arg.c.incr >= 1000 /\ arg.c.incr <= 100000) =>
        /\ WithinOneStep(arg.c.start, res.startCode)
        /\ WithinOneStep(arg.c.incr, res.incrCode)

\* the codes of 100 kHz and of 1 kHz have been computed
C17_Witness ==
    /\ res.fn = "sweep"
    /\ arg.c.start = 100000
    /\ arg.c.incr = 1000
    /\ res.startCode = 3355443
    /\ res.incrCode = 33554

\* the writes to one register among the writes of a configuration routine
WritesTo(ws, reg) == SelectSeq(ws, LAMBDA e : e.reg = reg)

IsByte(x) == x >= 0 /\ x <= 255

\* d is three bytes whose big-endian value is code modulo 2^24
ThreeBytesOf(d, code) ==
    /\ Len(d) = 3
    /\ \A j \in 1..3 : IsByte(d[j])
    /\ 65536 * d[1] + 256 * d[2] + d[3] = code % 16777216

\* C18: the start-frequency and the frequency-increment register are each
\* written once, with exactly three bytes, most significant first, whose
\* big-endian value is the frequency code modulo 2^24; for a frequency in
\* [1 kHz, 100 kHz] the code is below 2^24 and the bytes give the code itself.
C18_FrequencyBytes ==
    res.fn = "sweep" =>
        /\ \A ws \in {res.gen, res.drv} :
             LET ws1 == WritesTo(ws, REG_START_FREQ)
                 ws2 == WritesTo(ws, REG_FREQ_INCR)
             IN  /\ Len(ws1) = 1 /\ ThreeBytesOf(ws1[1].data, res.startCode)
                 /\ Len(ws2) = 1 /\ ThreeBytesOf(ws2[1].data, res.incrCode)
                 /\ (arg.c.start >= 1000 /\ arg.c.start <= 100000) =>
                      /\ res.startCode < 16777216
                      /\ 65536 * ws1[1].data[1] + 256 * ws1[1].data[2]
                           + ws1[1].data[3] = res.startCode
                 /\ (arg.c.incr >= 1000 /\ arg.c.incr <= 100000) =>
                      /\ res.incrCode < 16777216
                      /\ 65536 * ws2[1].data[1] + 256 * ws2[1].data[2]
                           + ws2[1].data[3] = res.incrCode

\* the code of 30 kHz, 0x0F5C28, has been split into its three bytes
C18_Witness ==
    /\ res.fn = "sweep"
    /\ arg.c.start = 30000
    /\ res.startCode = 1006632
    /\ WritesTo(res.gen, REG_START_FREQ) =
          <<WEntry(REG_START_FREQ, <<15, 92, 40>>)>>
    /\ WritesTo(res.drv, REG_START_FREQ) =
          <<WEntry(REG_START_FREQ, <<15, 92, 40>>)>>

\* what the claim says of the increment-count write for the count n
CountBytesOf(ws, n) ==
    LET w == WritesTo(ws, REG_NUM_INCR)
    IN  /\ Len(w) = 1
        /\ Len(w[1].data) = 2
        /\ IsByte(w[1].data[1]) /\ IsByte(w[1].data[2])
        /\ 256 * w[1].data[1] + w[1].data[2] = n
        /\ (256 * w[1].data[1] + w[1].data[2]) \div 512 = 0

\* C19: the increment-count register is written with two bytes, most
\* significant first, whose 16-bit value is numIncrements, and for every
\* numIncrements the controller accepts the upper 7 bits of that value are 0.
C19_IncrementCountBytes ==
    res.fn = "sweep" =>
        /\ CountBytesOf(res.gen, arg.c.N)
        /\ CountBytesOf(res.drv, arg.c.N)

\* C19, as far as it holds: the counts start_sweep of gui.py lets through
C19_GuiCheckedCountBytes ==
    (res.fn = "sweep" /\ GuiAcceptsPoints(arg.c.N)) =>
        /\ CountBytesOf(res.gen, arg.c.N)
        /\ CountBytesOf(res.drv, arg.c.N)

\* the mode nibbles the controller defines
ModeNibbles ==
    {c \div 16 : c \in {CTRL_INIT_START, CTRL_START_SWEEP, CTRL_INCR_FREQ,
                        CTRL_REPEAT_FREQ, CTRL_MEAS_TEMP, CTRL_POWER_DOWN,
                        CTRL_POWER_UP, CTRL_STANDBY}}

\* bits 1-2 of a control high byte
RangeField(byte) == (byte \div 2) % 4

\* every write to the control register on record
ControlWrites ==
    SelectSeq(busLog \o ptLog, LAMBDA e : e.kind = "w" /\ e.reg = REG_CONTROL)

\* C20: every write to the control register carries in the upper four bits of
\* its first byte one mode nibble of the defined set; the range bits (1-2) and
\* the gain bit (0) are non-zero only in the two-byte configuration write,
\* where the four excitation-range codes give four distinct values of bits
\* 1-2 and the gain flag is bit 0; the initialize, start-sweep and
\* increment-frequency writes (and every other one-byte write) carry none.
C20_ControlWord ==
    \A j \in 1..Len(ControlWrites) :
        LET e == ControlWrites[j]
            high == e.data[1]
        IN  /\ IsByte(high)
            /\ (high \div 16) \in ModeNibbles
            /\ Tag(e) # "control" =>
                 /\ Len(e.data) = 1
                 /\ high % 16 = 0
                 /\ Tag(e) \in {"power_down", "standby", "init", "start_sweep",
                                "incr_freq", "meas_temp"}
            /\ Tag(e) = "control" =>
                 /\ op = "sweep" /\ variant = "gen"
                 /\ e.data[2] = 0
                 /\ Bit(high, 3) = 0
                 /\ Bit(high, 0) = (IF cfg.gainX1 THEN 1 ELSE 0)
                 /\ cfg.range \in DefinedRanges =>
                      \A r \in DefinedRanges :
                         (RangeField(CtrlHigh(r, cfg.gainX1)) = RangeField(high))
                            <=> (r = cfg.range)

\* a sweep with excitation range 4 and gain x5 has written its control word
\* 0xA6 0x00 and has started
C20_Witness ==
    /\ op = "sweep"
    /\ cfg.range = 4 /\ ~cfg.gainX1
    /\ Len(busLog) = 9
    /\ busLog[3] = WEntry(REG_CONTROL, <<166, 0>>)
    /\ Tag(busLog[9]) = "start_sweep"

-----------------------------------------------------------------------------
(* The settling time *)

\* the 16-bit value of the two data bytes of a message to the settling register
SettleWord(m) == 256 * m[2] + m[3]

\* bits 9-10 of the word
SettleCode(m) == ShiftRight(SettleWord(m), 9) % 4

\* m is a message to the settling register whose two data bytes hold cycles
\* in bits 0-8, a code in bits 9-10 and nothing above
SettleMessage(m, cycles) ==
    /\ Len(m) = 3
    /\ m[1] = REG_SETTLE_CYCLES
    /\ AllBytes(m)
    /\ SettleWord(m) % Pow2(9) = cycles
    /\ SettleWord(m) < Pow2(11)

\* C21: for every cycles in 0..511 and every multiplier in {1, 2, 4},
\* configure_settling_time over a transport that does not fault returns True
\* and writes two bytes to the settling-cycles register whose 16-bit value
\* holds cycles in bits 0-8 and a multiplier code in bits 9-10, another
\* multiplier getting another code.
C21_SettlingTimeWrite ==
    res.fn = "settle" =>
        /\ res.w.val = "True"
        /\ Len(res.w.sent) = 1
        /\ SettleMessage(res.w.sent[1], arg.cycles)
        /\ \A m2 \in SettleMultipliers \ {arg.mult} :
              LET o == ConfigureSettlingTime(TRUE, arg.cycles, m2, 0)
              IN  /\ Len(o.sent) = 1
                  /\ SettleCode(o.sent[1]) # SettleCode(res.w.sent[1])

\* as far as C21 holds: with multiplier 4 the write succeeds and carries the
\* cycles with code 0; with multiplier 1 or 2 the first data byte is above
\* 255, nothing is transmitted and False is returned
C21_SettlingTimeAsCoded ==
    res.fn = "settle" =>
        IF arg.mult = 4
        THEN /\ res.w.val = "True"
             /\ Len(res.w.sent) = 1
             /\ SettleMessage(res.w.sent[1], arg.cycles)
             /\ SettleCode(res.w.sent[1]) = 0
        ELSE /\ res.w.val = "False"
             /\ res.w.sent = <<>>

-----------------------------------------------------------------------------
(* The magnitude *)

Abs(x) == IF x < 0 THEN 0 - x ELSE x

\* s is a sample of components re and im whose magnitude m is the root of
\* re^2 + im^2
MagnitudeOf(s, m, re, im) ==
    /\ s.re = re
    /\ s.im = im
    /\ s.magSq = re * re + im * im
    /\ m.root >= 0
    /\ m.root * m.root <= s.magSq
    /\ s.magSq < (m.root + 1) * (m.root + 1)
    /\ m.exact = (m.root * m.root = s.magSq)
    /\ (Abs(re) = 3 /\ Abs(im) = 4) => (m.root = 5 /\ m.exact)

\* the signed value of a data word
WordValue(b) == IF b[1] >= 128 THEN 256 * b[1] + b[2] - 65536 ELSE 256 * b[1] + b[2]

\* C22: every sample carries as magnitude the non-negative root of
\* real^2 + imaginary^2 of its signed components, in sweep_generator and in
\* test_sweep; components (3, 4), (-3, 4), (3, -4) and (-3, -4) give exactly 5.
C22_Magnitude ==
    res.fn = "sample" =>
        /\ MagnitudeOf(res.gen, res.genMag, WordValue(arg.re), WordValue(arg.im))
        /\ MagnitudeOf(res.drv, res.drvMag, WordValue(arg.re), WordValue(arg.im))

C22_Witness ==
    /\ res.fn = "sample"
    /\ res.gen.re = 0 - 3
    /\ res.gen.im = 4
    /\ res.genMag = [root |-> 5, exact |-> TRUE]
    /\ res.drvMag = [root |-> 5, exact |-> TRUE]

-----------------------------------------------------------------------------
(* start_sweep of the GUI and its generator *)

\* the step appends a measure-temperature write to the log of the call
MeasTempWritten ==
    /\ Len(busLog') = Len(busLog) + 1
    /\ Tag(busLog'[Len(busLog')]) = "meas_temp"

\* a generator that was pulled and has neither returned nor raised
SweepActive == op = "sweep" /\ pc \notin {"created", "done", "raised"}

\* C23: measure_temperature is never invoked while a sweep is active: in
\* start_sweep no step enters measure_temperature and no measure-temperature
\* control write is made between the first pull of the generator and its end,
\* whether it ends exhausted or early.
C23_NoTemperatureDuringSweep ==
    [][/\ (pc' = "tmp_w" /\ pc # "tmp_w") => ~SweepActive
       /\ MeasTempWritten => (op = "temp" /\ hnd # "sweep")]_vars

\* start_sweep has run its generator to the end and has made the
\* measure-temperature write of temp_after
C23_Witness ==
    /\ hnd = "after"
    /\ pc = "tmp_poll"
    /\ busLog = <<WEntry(REG_CONTROL, <<CTRL_MEAS_TEMP>>)>>

\* C24: a generator is single-pass: once it has returned or raised, a further
\* pull yields no sample and makes no register operation, however often it is
\* repeated; a newly created generator starts before its first configuration
\* write, and its first sample comes after the seven writes of configure_sweep.
C24_SinglePass ==
    [][/\ (variant = "gen" /\ op = "sweep" /\ pc \in {"done", "raised"}
              /\ op' = "sweep")
          => /\ pc' = pc
             /\ samples' = samples
             /\ cur' = cur
             /\ busLog' = busLog
             /\ ptLog' = ptLog
             /\ rop' = rop
       /\ (variant = "gen" /\ op # "sweep" /\ op' = "sweep")
          => /\ pc' = "created"
             /\ cfgStep' = 1
             /\ busLog' = <<>>
             /\ samples' = <<>>
       /\ (variant = "gen" /\ op = "sweep" /\ samples = <<>> /\ samples' # <<>>)
          => IsPrefix(ClaimedConfigOrder, Tags(busLog))]_vars

C24_Witness ==
    /\ variant = "gen"
    /\ op = "sweep"
    /\ pc = "done"
    /\ samples # <<>>
    /\ spent

-----------------------------------------------------------------------------
(* Status reads *)

\* C25: a register read that failed is never turned into a data value: after
\* it the caller holds no status byte (a failed status read is not status 0),
\* no sample and no temperature.
C25_NoDefaultFromFailedRead ==
    (rop.kind = "r" /\ ~rop.ok) =>
        /\ status.none
        /\ cur = NoSample
        /\ temp = NoTemp

\* C25, as far as it holds: the generator and measure_temperature of
\* ad5933.py, and the data reads of both controllers
C25_OnlyStatusDefaulted ==
    (rop.kind = "r" /\ ~rop.ok) =>
        /\ variant = "gen" => status.none
        /\ cur = NoSample
        /\ temp = NoTemp

\* C29: the status is never cached: every poll of a sweep point or of
\* measure_temperature makes its own status read and works with the byte that
\* read returned; a point's polling stops at the first read that shows the
\* ready bit, and the status reads of a point are as many as its polls,
\* between 1 and 20 when its data registers are read.
C29_StatusNeverCached ==
    [][/\ (polls' = polls + 1)
          => /\ rop'.kind = "r"
             /\ rop'.reg = REG_STATUS
             /\ rop'.calls >= 1
             /\ rop'.ok => status' = StatusOf(rop'.val.bytes[1])
             /\ op = "sweep" => (ready' <=> (rop'.ok /\ Bit(rop'.val.bytes[1], 1) = 1))
       /\ (op = "sweep" /\ ready) => polls' \in {polls, 0}
       /\ (op' = "sweep" /\ polls' > 0) => StatusReads(ptLog') = polls'
       /\ (op' = "sweep" /\ pc' \in {"real", "imag", "yielded"})
          => (1 <= polls' /\ polls' <= 20)]_vars

C29_Witness ==
    /\ op = "sweep"
    /\ pc = "imag"
    /\ ready
    /\ polls = 3
    /\ StatusReads(ptLog) = 3

-----------------------------------------------------------------------------
(* Host and device *)

\* C30: host and device stay in step: whenever the data registers of the
\* sample with index i are read, the chip has taken exactly i
\* increment-frequency commands since start-sweep, whatever faulted before,
\* a failed increment write included.
C30_HostDeviceInStep ==
    (op = "sweep" /\ pc \in {"real", "imag", "yielded"}) => devIncr = i

\* C30, as far as it holds: in the generator, as long as no operation of the
\* per-point loop has failed
C30_InStepWithoutFailure ==
    (variant = "gen" /\ op = "sweep" /\ pc \in {"real", "imag", "yielded"}
        /\ ~ptFail)
    => devIncr = i

-----------------------------------------------------------------------------
(* The register helpers: tracing, data words, payloads *)

\* two runs of a helper made the same transport calls and returned the same
SameOnTheBus(a, b) == a.sent = b.sent /\ a.val = b.val

\* C26: tracing changes nothing but the diagnostic output: a register helper
\* called with the same arguments over the same transport makes the same
\* transport calls with the same arguments and returns the same result with
\* debug on and with debug off.
C26_TracingIsInert ==
    res.fn \in {"write", "read"} =>
        /\ SameOnTheBus(res.genOn, res.genOff)
        /\ SameOnTheBus(res.drvOn, res.drvOff)

\* a driver read that succeeds at the third attempt, traced and untraced
C26_Witness ==
    /\ res.fn = "read"
    /\ arg.k = 2
    /\ Len(res.drvOn.sent) = 3
    /\ res.drvOn.out = <<"Read">>
    /\ res.drvOff.out = <<>>
    /\ ~res.drvOff.val.none

\* C27: both controllers read the pair (hi, lo) as a signed 16-bit big-endian
\* number: 256 * hi + lo where that is below 32768, 65536 less otherwise; the
\* value lies in -32768..32767 and the two conversions agree on every pair.
C27_SignedWord ==
    res.fn = "word" =>
        LET u == 256 * arg.bytes[1] + arg.bytes[2]
            v == IF u < 32768 THEN u ELSE u - 65536
        IN  /\ res.gen = v
            /\ res.drv = v
            /\ 0 - 32768 <= v
            /\ v <= 32767

C27_Witness ==
    /\ res.fn = "word"
    /\ arg.bytes = <<128, 128>>
    /\ res.gen = 0 - 32640
    /\ res.drv = 0 - 32640

\* what _write_reg has to transmit for its data argument
ClaimedPayload(data) == IF data.int THEN <<data.v>> ELSE data.items

\* C28: _write_reg given an int b transmits the one-byte payload [b], and
\* given a list transmits that list unchanged, in every transport call it
\* makes: after the register byte in ad5933.py, as the data of writeto_mem in
\* ad5933-driver.py.
C28_PayloadNormalised ==
    res.fn = "write" =>
        /\ Len(res.genOn.sent) >= 1
        /\ \A j \in 1..Len(res.genOn.sent) :
              res.genOn.sent[j] = <<arg.reg>> \o ClaimedPayload(arg.data)
        /\ Len(res.drvOn.sent) >= 1
        /\ \A j \in 1..Len(res.drvOn.sent) :
              res.drvOn.sent[j] = [reg |-> arg.reg, data |-> ClaimedPayload(arg.data)]

C28_Witness ==
    /\ res.fn = "write"
    /\ arg.data = PyInt(48)
    /\ arg.k = 0
    /\ res.genOn.sent = <<(<<REG_CONTROL, 48>>)>>
    /\ res.drvOn.sent = <<[reg |-> REG_CONTROL, data |-> <<48>>]>>

-----------------------------------------------------------------------------
(* The control register as the controller's writes leave it *)

\* the first byte of the controller's latest write to the control register,
\* 0 when the call has made none: every write to REG_CONTROL replaces the
\* high byte, mode nibble, range bits and gain bit alike.  The log of a loop
\* iteration is dropped at the next one, where the latest write is then the
\* increment-frequency write that ended the iteration before.
LastControlHigh ==
    LET inPoint == SelectSeq(ptLog, LAMBDA e : e.kind = "w" /\ e.reg = REG_CONTROL)
        before == SelectSeq(busLog, LAMBDA e : e.kind = "w" /\ e.reg = REG_CONTROL)
    IN  IF inPoint # <<>> THEN inPoint[Len(inPoint)].data[1]
        ELSE IF op = "sweep" /\ incrWrites > 0 THEN CTRL_INCR_FREQ
        ELSE IF before # <<>> THEN before[Len(before)].data[1]
        ELSE 0

\* the range bits and the gain bit of a control high byte
RangeGainBits(byte) == byte % 8

\* C31: the excitation range and the gain chosen for the sweep are in effect
\* during measurement: whenever a sample is read, the range and gain bits of
\* the control register as the controller last wrote it are those
\* configure_sweep computed from its arguments.
C31_RangeGainInEffect ==
    (variant = "gen" /\ op = "sweep" /\ pc \in {"real", "imag", "yielded"}) =>
        RangeGainBits(LastControlHigh) = RangeGainBits(CtrlHigh(cfg.range, cfg.gainX1))

\* C31, as far as it holds: from the configuration write up to the
\* initialize write, and in a sweep of range 1 with the x5 gain, whose bits
\* are 0
C31_RangeGainUntilInit ==
    (variant = "gen" /\ op = "sweep" /\ pc = "init") =>
        RangeGainBits(LastControlHigh) = RangeGainBits(CtrlHigh(cfg.range, cfg.gainX1))

\* the mode nibble of the latest control write among the first n of the log
ModeBefore(log, n) ==
    LET w == SelectSeq(SubSeq(log, 1, n),
                       LAMBDA e : e.kind = "w" /\ e.reg = REG_CONTROL)
    IN  IF w = <<>> THEN 0 - 1 ELSE w[Len(w)].data[1] \div 16

\* C32: when the initialize-with-start-frequency code is written, the mode
\* the controller wrote last to the control register is standby: no control
\* write with the power-down nibble lies between the standby write and the
\* initialize write.
C32_StandbyBeforeInit ==
    \A j \in 1..Len(busLog) :
        Tag(busLog[j]) = "init" =>
            ModeBefore(busLog, j - 1) = CTRL_STANDBY \div 16

\* C32, as far as it holds: in sweep_generator the standby write does precede
\* the initialize write, with the two-byte configuration write, whose mode
\* nibble is the power-down one, as the only control write in between
C32_StandbyThenControl ==
    \A j \in 1..Len(busLog) :
        (variant = "gen" /\ Tag(busLog[j]) = "init") =>
            /\ j = 8
            /\ Tag(busLog[2]) = "standby"
            /\ Tag(busLog[3]) = "control"
            /\ ModeBefore(busLog, j - 1) = CTRL_POWER_DOWN \div 16

-----------------------------------------------------------------------------
(* The generator and its consumer *)

\* C34: samples are produced on demand: creating the generator makes no
\* register operation; while it is suspended, before the first pull or at a
\* yield, nothing is written or read; the increment-frequency write after
\* sample i is made only once the consumer has pulled again; and a consumer
\* that has k >= 1 samples has caused k - 1 increment-frequency writes and no
\* power-down or standby write beyond the two of the configuration.
C34_PullDriven ==
    [][variant = "gen" =>
         /\ (op' = "sweep" /\ pc' = "created")
            => (busLog' = <<>> /\ ptLog' = <<>> /\ rop' = NoOp)
         /\ (op = "sweep" /\ pc \in {"created", "yielded"} /\ op' = "sweep")
            => /\ busLog' = busLog
               /\ ptLog' = ptLog
               /\ rop' = rop
               /\ incrWrites' = incrWrites
               /\ samples' = samples
         /\ (op = "sweep" /\ pc' = "incr" /\ pc # "incr") => pc = "yielded"
         /\ (op' = "sweep" /\ pc' = "yielded")
            => /\ Len(samples') >= 1
               /\ cur'.idx = Len(samples') - 1
               /\ incrWrites' = Len(samples') - 1
               /\ Tags(busLog') = ProtocolPrologue
               /\ \A j \in 1..Len(ptLog') :
                     Tag(ptLog'[j]) \notin {"power_down", "standby"}]_vars

\* the consumer holds two samples and one increment write has been made
C34_Witness ==
    /\ variant = "gen"
    /\ op = "sweep"
    /\ pc = "yielded"
    /\ Len(samples) = 2
    /\ incrWrites = 1

\* C35: for every transport behaviour a sweep with N increments yields at
\* most N + 1 samples, their point indexes strictly increasing, so that no
\* point comes twice or out of order and the frequencies do not decrease.
C35_SamplesInOrder ==
    (op = "sweep" /\ cfg.numIsInt) =>
        /\ Len(samples) <= cfg.N + 1
        /\ \A j \in 1..Len(samples) :
              /\ 0 <= samples[j].idx
              /\ samples[j].idx <= cfg.N
              /\ j > 1 => /\ samples[j - 1].idx < samples[j].idx
                          /\ samples[j - 1].freq <= samples[j].freq

\* a driver sweep that skipped a point and recorded a later one, over a
\* transport that faulted
C35_Witness ==
    /\ variant = "drv"
    /\ op = "sweep"
    /\ ~ideal
    /\ Len(samples) = 1
    /\ samples[1].idx = 1

-----------------------------------------------------------------------------
(* The retry loops of the driver *)

\* a helper call of the driver made n transport calls and returned with its
\* retries counter at left: one retry is spent per fault, 3 faults end it
SpentRetries(n, left, failed) ==
    /\ 1 <= n
    /\ n <= 3
    /\ left >= 0
    /\ IF failed THEN n = 3 /\ left = 0 ELSE left = 3 - (n - 1)

\* C38: in ad5933-driver.py every call of _write_reg returns exactly True or
\* False and every call of _read_reg the bytes read or None, after 1 to 3
\* transport calls; the retries counter is never below zero at the return and
\* the loop is never left without a result.
C38_ExplicitResult ==
    /\ res.fn = "write" =>
          /\ res.drvOn.val \in {"True", "False"}
          /\ SpentRetries(Len(res.drvOn.sent), res.drvOn.left,
                          res.drvOn.val = "False")
          /\ res.drvOn.val = "False" <=> \A a \in 1..3 : Faulty(arg.k, a)
    /\ res.fn = "read" =>
          /\ res.drvOn.val \in {PyNone, PyBytes(arg.data)}
          /\ SpentRetries(Len(res.drvOn.sent), res.drvOn.left,
                          res.drvOn.val.none)
          /\ res.drvOn.val.none <=> \A a \in 1..3 : Faulty(arg.k, a)

\* a write that gave up after three faults
C38_Witness ==
    /\ res.fn = "write"
    /\ arg.k = MaxFaults
    /\ res.drvOn.val = "False"
    /\ Len(res.drvOn.sent) = 3
    /\ res.drvOn.left = 0

-----------------------------------------------------------------------------
(* The excitation range codes *)

\* C37: configure_sweep accepts only the four defined excitation-range codes:
\* in a sweep with another range code it does not return True, and no control
\* word with range bits is written for it.
C37_UndefinedRangeRefused ==
    (variant = "gen" /\ op = "sweep" /\ cfg.range \notin DefinedRanges) =>
        /\ ret # "True"
        /\ \A j \in 1..Len(busLog) : Tag(busLog[j]) # "control"

\* C37, as far as it holds: each defined code has range bits of its own, so
\* that the control word written tells the four ranges apart
C37_DefinedRangesDistinct ==
    \A a \in DefinedRanges, b \in DefinedRanges :
        RangeBits(a) = RangeBits(b) => a = b

-----------------------------------------------------------------------------
(* measure_temperature under faults *)

\* measure_temperature has not raised, has returned a temperature or None if
\* it has returned, and has made at most one control write, 20 status reads
\* and one temperature read after each of them
TemperatureCallBounded ==
    /\ pc \in {"tmp_w", "tmp_poll", "tmp_read", "idle"}
    /\ IF pc = "idle"
       THEN \/ ret = "float" /\ ~temp.none
            \/ ret = "None" /\ temp.none
       ELSE ret = "none"
    /\ Len(busLog) <= 1
    /\ \A j \in 1..Len(busLog) : Tag(busLog[j]) = "meas_temp"
    /\ polls <= 20
    /\ Len(ptLog) <= 2
    /\ Len(SelectSeq(ptLog, LAMBDA e : Tag(e) = "temp_data")) <= 1

\* C36: measure_temperature never raises to its caller: under every pattern
\* of transport faults it returns a temperature or None, after at most one
\* control write, 20 status reads and 20 temperature reads; and it does not
\* return a temperature when its measure-temperature control write failed.
C36_TemperatureNeedsTrigger ==
    op = "temp" =>
        /\ TemperatureCallBounded
        /\ ret = "float" => ~trigFail

\* C36, as far as it holds: no fault makes measure_temperature raise or run
\* past its budget, and a failed control write is the only failure it does
\* not answer with None
C36_TemperatureNeverRaises ==
    op = "temp" =>
        /\ TemperatureCallBounded
        /\ (pc = "idle" /\ rop.kind = "r" /\ ~rop.ok /\ polls < 20) =>
              (rop.reg = REG_STATUS /\ ret = "None")

-----------------------------------------------------------------------------
(* The settling time across a sweep *)

\* C33: a settling time set by a configure_settling_time call that returned
\* True is the one in effect for the next sweep: when the first sample of the
\* sweep is measured the settling register holds the two bytes that call
\* wrote.
C33_SettlingTimeKept ==
    (res.fn = "settled" /\ res.first.val = "True") =>
        /\ Len(res.first.sent) = 1
        /\ res.held = Tail(res.first.sent[1])

\* C33, as far as it holds: whatever the call before it wrote, the sweep
\* measures with the 15 cycles configure_sweep writes
C33_SweepSetsSettling ==
    res.fn = "settled" => res.held = <<0, 15>>

====
